---- MODULE Spec2Model ----
(***************************************************************************)
(* Model of the arbitrary-precision integer of big_integer.h/.cpp.         *)
(*                                                                         *)
(* A BigInteger is the record [digits, is_negative] of the class: digits   *)
(* is the limb vector digits_, least significant limb first (digits[1] is  *)
(* digits_[0]), is_negative the sign flag.  Every member function is an    *)
(* operator that computes what the C++ computes, loop by loop; a loop is a *)
(* RECURSIVE operator whose parameters are the loop's variables.           *)
(*                                                                         *)
(* The limb radix of the source is 10^9 and its native integers have 64    *)
(* bits; limb products (10^18) are outside the integers TLC evaluates, so  *)
(* the model runs the same code over a small radix (Radix) and a small     *)
(* native integer range (-NativeMax-1 .. NativeMax).  The code never uses  *)
(* the value of the radix, only the name internal_base.  With a small     *)
(* radix every value of one and two limbs, of either sign, is an operand,  *)
(* so every carry, borrow and inner zero limb occurs.  Bases run up to 36  *)
(* as in the source, so NativeMax is at least 36.                          *)
(***************************************************************************)
EXTENDS Integers, Sequences, FiniteSets

\* ---- bounds ----
Radix == 3          \* the limb radix the model runs with (source: 10^9)
NativeMax == 47     \* largest native signed integer of the model (source: 2^63 - 1)
MaxInt == 4         \* native integers handed to the API are in -MaxInt..MaxInt
MaxValue == 8       \* an object is assigned to only while its magnitude is <= MaxValue
MaxStrLen == 2      \* longest text handed to FromString
MaxMod == 4         \* largest unsigned modulus handed to operator%
MaxBase == 37       \* bases handed to FromString / ToString are in -1..MaxBase
MaxTextInt == 20    \* objects rendered as text are built from -MaxTextInt..MaxTextInt

\* ---- native integer arithmetic (C++ semantics: / and % truncate toward 0) ----
AbsInt(n) == IF n < 0 THEN -n ELSE n

CDiv(a, b) == IF a >= 0 THEN a \div b ELSE -((-a) \div b)

CMod(a, b) == a - b * CDiv(a, b)

\* ---- representation ----
internal_base == Radix

NumberOfDigits(a) == Len(a.digits)

Sign(a) == IF NumberOfDigits(a) = 0 THEN 0 ELSE IF a.is_negative THEN -1 ELSE 1

Negate(a) == [a EXCEPT !.is_negative = ~a.is_negative]

Abs(a) == [a EXCEPT !.is_negative = FALSE]

DigitAt(a, pos) == a.digits[pos + 1]

\* mutant: the limb without its sign
SignedDigitAtUnsigned(a, pos) == DigitAt(a, pos)

SignedDigitAt(a, pos) == Sign(a) * DigitAt(a, pos)

LeadingDigit(a) == a.digits[Len(a.digits)]

PushLeadingDigit(a, digit) == [a EXCEPT !.digits = Append(a.digits, digit)]

PushDigitToEnd(a, digit) == [a EXCEPT !.digits = Append(a.digits, digit)]

\* mutant: the limb is appended at the most significant end
InsertMostSignificantDigit(a, digit) == [a EXCEPT !.digits = Append(a.digits, digit)]

InsertLeastSignificantDigit(a, digit) == [a EXCEPT !.digits = <<digit>> \o a.digits]

\* mutant: the one-limb overload is taken, quantity is ignored
InsertOneLeastSignificantDigit(a, digit, quantity) == [a EXCEPT !.digits = <<digit>> \o a.digits]

InsertLeastSignificantDigits(a, digit, quantity) ==
  [a EXCEPT !.digits = [k \in 1..quantity |-> digit] \o a.digits]

RECURSIVE RemoveZeroesFrom(_, _)
RemoveZeroesFrom(d, rightmost_nonzero) ==
  IF rightmost_nonzero >= 0 /\ d[rightmost_nonzero + 1] = 0
  THEN RemoveZeroesFrom(d, rightmost_nonzero - 1)
  ELSE SubSeq(d, 1, rightmost_nonzero + 1)

RemoveZeroes(a) == [a EXCEPT !.digits = RemoveZeroesFrom(a.digits, Len(a.digits) - 1)]

Reverse(d) == [k \in 1..Len(d) |-> d[Len(d) + 1 - k]]

\* mutant: the quotient is reversed but not trimmed
ReverseDigitsOnly(a) == [a EXCEPT !.digits = Reverse(a.digits)]

ReverseDigitsAndNormalize(a) == RemoveZeroes([a EXCEPT !.digits = Reverse(a.digits)])

RemainderByBase(number) ==
  CMod(CMod(number, internal_base) + internal_base, internal_base)

\* BigInteger() = default
DefaultBigInteger == [digits |-> <<>>, is_negative |-> FALSE]

RECURSIVE BigIntegerDigits(_)
BigIntegerDigits(value) ==
  IF value = 0 THEN <<>>
  ELSE <<AbsInt(CMod(value, internal_base))>> \o BigIntegerDigits(CDiv(value, internal_base))

\* BigInteger(int64_t)
BigInteger(value) == [digits |-> BigIntegerDigits(value), is_negative |-> value < 0]

\* ---- comparison ----
RECURSIVE CompareDigitsFrom(_, _, _)
CompareDigitsFrom(lhs, rhs, i) ==
  IF i < 0 THEN 0
  ELSE IF DigitAt(lhs, i) # DigitAt(rhs, i)
       THEN (IF DigitAt(lhs, i) < DigitAt(rhs, i) THEN -1 ELSE 1)
       ELSE CompareDigitsFrom(lhs, rhs, i - 1)

\* mutant: equal limb counts are taken for equal magnitudes
CompareNumberOfDigits(lhs, rhs) ==
  IF NumberOfDigits(lhs) # NumberOfDigits(rhs)
  THEN (IF NumberOfDigits(lhs) < NumberOfDigits(rhs) THEN -1 ELSE 1)
  ELSE 0

CompareAbsoluteValues(lhs, rhs) ==
  IF NumberOfDigits(lhs) # NumberOfDigits(rhs)
  THEN (IF NumberOfDigits(lhs) < NumberOfDigits(rhs) THEN -1 ELSE 1)
  ELSE CompareDigitsFrom(lhs, rhs, NumberOfDigits(lhs) - 1)

OperatorEq(lhs, rhs) ==
  IF Sign(lhs) # Sign(rhs) THEN FALSE ELSE CompareAbsoluteValues(lhs, rhs) = 0

OperatorNe(lhs, rhs) == ~OperatorEq(lhs, rhs)

\* mutant: equal signs compare by magnitude alone
OperatorLtByMagnitude(lhs, rhs) ==
  IF Sign(lhs) # Sign(rhs) THEN Sign(lhs) < Sign(rhs)
  ELSE CompareAbsoluteValues(lhs, rhs) = -1

OperatorLt(lhs, rhs) ==
  IF Sign(lhs) # Sign(rhs) THEN Sign(lhs) < Sign(rhs)
  ELSE CompareAbsoluteValues(lhs, rhs) * Sign(lhs) = -1

OperatorGt(lhs, rhs) == ~(OperatorEq(lhs, rhs) \/ OperatorLt(lhs, rhs))

OperatorLe(lhs, rhs) == OperatorEq(lhs, rhs) \/ OperatorLt(lhs, rhs)

OperatorGe(lhs, rhs) == ~OperatorLt(lhs, rhs)

\* ---- limb-by-scalar product ----
RECURSIVE MultiplyByShortLoop(_, _, _, _, _)
MultiplyByShortLoop(lhs, rhs, i, carry, result) ==
  IF i < NumberOfDigits(lhs) \/ carry # 0
  THEN LET digit == carry + (IF i < NumberOfDigits(lhs) THEN DigitAt(lhs, i) * rhs ELSE 0)
       IN MultiplyByShortLoop(lhs, rhs, i + 1, CDiv(digit, internal_base),
                              PushLeadingDigit(result, CMod(digit, internal_base)))
  ELSE result

MultiplyByShort(lhs, rhs) ==
  [RemoveZeroes(MultiplyByShortLoop(lhs, rhs, 0, 0, DefaultBigInteger))
     EXCEPT !.is_negative = OperatorLt(lhs, BigInteger(0))]

\* ---- addition, subtraction, negation ----
OperatorNeg(a) == Negate(a)

RECURSIVE OperatorPlusLoop(_, _, _, _, _)
OperatorPlusLoop(this, rhs, i, carry, result) ==
  IF i < NumberOfDigits(this) \/ carry # 0
  THEN LET digit == carry
                    + (IF i < NumberOfDigits(this) THEN DigitAt(this, i) ELSE 0)
                    + (IF i < NumberOfDigits(rhs) THEN SignedDigitAt(rhs, i) ELSE 0)
           pushed == PushLeadingDigit(result, RemainderByBase(digit))
       IN OperatorPlusLoop(this, rhs, i + 1,
                           CDiv(digit - LeadingDigit(pushed), internal_base), pushed)
  ELSE result

RECURSIVE OperatorPlus(_, _)
OperatorPlus(this, rhs) ==
  IF CompareAbsoluteValues(this, rhs) = -1 THEN OperatorPlus(rhs, this)
  ELSE IF OperatorLt(this, BigInteger(0))
       THEN OperatorNeg(OperatorPlus(OperatorNeg(this), OperatorNeg(rhs)))
       ELSE RemoveZeroes(OperatorPlusLoop(this, rhs, 0, 0, DefaultBigInteger))

OperatorMinus(this, rhs) ==
  IF OperatorLt(this, BigInteger(0))
  THEN OperatorNeg(OperatorPlus(OperatorNeg(this), rhs))
  ELSE OperatorPlus(this, OperatorNeg(rhs))

\* ---- outcomes of a call: a returned value or a thrown exception ----
NoValue == [none |-> TRUE]

Return(v) == [exc |-> "none", val |-> v, index |-> -1]

Throw(e) == [exc |-> e, val |-> NoValue, index |-> -1]

ThrowAt(e, i) == [exc |-> e, val |-> NoValue, index |-> i]

\* ---- multiplication ----
RECURSIVE OperatorTimesLoop(_, _, _, _)
OperatorTimesLoop(this, rhs, i, result) ==
  IF i < NumberOfDigits(rhs)
  THEN LET lhs_times_digit ==
             InsertLeastSignificantDigits(MultiplyByShort(this, DigitAt(rhs, i)), 0, i)
       IN OperatorTimesLoop(this, rhs, i + 1, OperatorPlus(result, lhs_times_digit))
  ELSE result

RECURSIVE OperatorTimes(_, _)
OperatorTimes(this, rhs) ==
  IF OperatorLt(this, BigInteger(0))
  THEN OperatorNeg(OperatorTimes(OperatorNeg(this), rhs))
  ELSE IF OperatorLt(rhs, BigInteger(0))
       THEN OperatorNeg(OperatorTimes(this, OperatorNeg(rhs)))
       ELSE RemoveZeroes(OperatorTimesLoop(this, rhs, 0, BigInteger(0)))

\* ---- division ----
RECURSIVE GuessDigitLoop(_, _, _, _)
GuessDigitLoop(lhs, rhs, quotient_l_bound, quotient_u_bound) ==
  IF quotient_l_bound + 1 < quotient_u_bound
  THEN LET middle_candidate == CDiv(quotient_l_bound + quotient_u_bound, 2)
       IN IF OperatorGt(MultiplyByShort(rhs, middle_candidate), lhs)
          THEN GuessDigitLoop(lhs, rhs, quotient_l_bound, middle_candidate)
          ELSE GuessDigitLoop(lhs, rhs, middle_candidate, quotient_u_bound)
  ELSE quotient_l_bound

\* mutant: the upper bound of the bisection is taken as inclusive
GuessDigitBelowTop(lhs, rhs) == GuessDigitLoop(lhs, rhs, 0, internal_base - 1)

GuessDigit(lhs, rhs) == GuessDigitLoop(lhs, rhs, 0, internal_base)

\* the loop of operator/ : i runs from NumberOfDigits()-1 down to 0
RECURSIVE OperatorDivLoop(_, _, _, _, _)
OperatorDivLoop(this, rhs, i, reversed_result, trailing_dividend) ==
  IF i >= 0
  THEN LET inserted == InsertLeastSignificantDigit(trailing_dividend, DigitAt(this, i))
           digit == GuessDigit(inserted, rhs)
       IN OperatorDivLoop(this, rhs, i - 1, PushDigitToEnd(reversed_result, digit),
                          OperatorMinus(inserted, MultiplyByShort(rhs, digit)))
  ELSE reversed_result

\* mutant: the divisor is compared with zero member by member, flag included
RECURSIVE OperatorDivMemberwiseZero(_, _)
OperatorDivMemberwiseZero(this, rhs) ==
  IF rhs = BigInteger(0) THEN Throw("DivisionByZeroError")
  ELSE IF OperatorLt(this, BigInteger(0))
       THEN LET inner == OperatorDivMemberwiseZero(OperatorNeg(this), rhs)
            IN IF inner.exc # "none" THEN inner ELSE Return(OperatorNeg(inner.val))
       ELSE IF OperatorLt(rhs, BigInteger(0))
            THEN LET inner == OperatorDivMemberwiseZero(this, OperatorNeg(rhs))
                 IN IF inner.exc # "none" THEN inner ELSE Return(OperatorNeg(inner.val))
            ELSE Return(ReverseDigitsAndNormalize(
                   OperatorDivLoop(this, rhs, NumberOfDigits(this) - 1,
                                   BigInteger(0), BigInteger(0))))

RECURSIVE OperatorDiv(_, _)
OperatorDiv(this, rhs) ==
  IF OperatorEq(rhs, BigInteger(0)) THEN Throw("DivisionByZeroError")
  ELSE IF OperatorLt(this, BigInteger(0))
       THEN LET inner == OperatorDiv(OperatorNeg(this), rhs)
            IN IF inner.exc # "none" THEN inner ELSE Return(OperatorNeg(inner.val))
       ELSE IF OperatorLt(rhs, BigInteger(0))
            THEN LET inner == OperatorDiv(this, OperatorNeg(rhs))
                 IN IF inner.exc # "none" THEN inner ELSE Return(OperatorNeg(inner.val))
            ELSE Return(ReverseDigitsAndNormalize(
                   OperatorDivLoop(this, rhs, NumberOfDigits(this) - 1,
                                   BigInteger(0), BigInteger(0))))

\* ---- conversion to the native integer ----
INT64_MAX == NativeMax

INT64_MIN == -NativeMax - 1

InInt64(n) == INT64_MIN <= n /\ n <= INT64_MAX

\* the loop over digits_: acc = [result, power, ub]; ub records that a signed
\* intermediate left the native range (undefined behaviour in the source)
RECURSIVE OperatorInt64Loop(_, _, _)
OperatorInt64Loop(this, k, acc) ==
  IF k < NumberOfDigits(this)
  THEN LET product == DigitAt(this, k) * acc.power
           result == acc.result + product
           grows == OperatorLe(OperatorTimes(BigInteger(acc.power), BigInteger(internal_base)),
                               BigInteger(INT64_MAX))
       IN OperatorInt64Loop(this, k + 1,
            [result |-> result,
             power |-> IF grows THEN acc.power * internal_base ELSE acc.power,
             ub |-> acc.ub \/ ~InInt64(product) \/ ~InInt64(result)])
  ELSE acc

OperatorInt64(this) ==
  IF OperatorGt(this, BigInteger(INT64_MAX)) \/ OperatorLt(this, BigInteger(INT64_MIN))
  THEN [exc |-> "int64_t overflow", val |-> NoValue, index |-> -1, ub |-> FALSE]
  ELSE LET acc == OperatorInt64Loop(this, 0, [result |-> 0, power |-> 1, ub |-> FALSE])
       IN [exc |-> "none", val |-> acc.result * Sign(this), index |-> -1,
           ub |-> acc.ub \/ ~InInt64(acc.result * Sign(this))]

\* ---- remainder against an unsigned native modulus ----
\* mutant: the remainder keeps the sign of the dividend
OperatorModTruncating(this, rhs) ==
  LET quotient == OperatorDiv(this, BigInteger(rhs))
  IN IF quotient.exc # "none" THEN quotient
     ELSE LET converted == OperatorInt64(
                 OperatorMinus(this, OperatorTimes(quotient.val, BigInteger(rhs))))
          IN IF converted.exc # "none" THEN Throw(converted.exc)
             ELSE Return(CMod(converted.val, rhs))

OperatorMod(this, rhs) ==
  LET quotient == OperatorDiv(this, BigInteger(rhs))
  IN IF quotient.exc # "none" THEN quotient
     ELSE LET converted == OperatorInt64(
                 OperatorMinus(this, OperatorTimes(quotient.val, BigInteger(rhs))))
          IN IF converted.exc # "none" THEN Throw(converted.exc)
             ELSE Return(CMod(converted.val + rhs, rhs))

\* ---- text conversion; a string is the sequence of its character codes ----
CharMinus == 45     \* '-'

Char0 == 48     \* '0'

Char9 == 57     \* '9'

CharLowerA == 97    \* 'a'

CharLowerZ == 122   \* 'z'

CharLowerX == 120   \* 'x'

\* std::string::operator[] : input[size()] is the terminating '\0'
CharAt(input, i) == IF i < Len(input) THEN input[i + 1] ELSE 0

\* mutant: the upper limit is off by one
ThrowIfBaseIsInvalidAbove37(base) == base < 2 \/ base > 37

ThrowIfBaseIsInvalid(base) == base < 2 \/ base > 36

\* mutant: upper-case letters are digits too
CharToDigitAnyCase(ch) ==
  IF ch >= Char0 /\ ch <= Char9 THEN ch - Char0
  ELSE IF ch >= CharLowerA /\ ch <= CharLowerZ THEN ch - CharLowerA + 10
       ELSE IF ch >= 65 /\ ch <= 90 THEN ch - 65 + 10
            ELSE -1

CharToDigit(ch) ==
  IF ch >= Char0 /\ ch <= Char9 THEN ch - Char0
  ELSE IF ch >= CharLowerA /\ ch <= CharLowerZ THEN ch - CharLowerA + 10
       ELSE -1

\* mutant: digits above 9 are rendered in upper case
DigitToCharUpper(digit) == IF digit < 10 THEN digit + Char0 ELSE digit - 10 + 65

DigitToChar(digit) == IF digit < 10 THEN digit + Char0 ELSE digit - 10 + CharLowerA

GetBasePrefixForward(base) ==
  IF base = 8 THEN <<Char0>>
  ELSE IF base = 16 THEN <<Char0, CharLowerX>>
       ELSE <<>>

GetReversedBasePrefix(base) ==
  IF base = 8 THEN <<Char0>>
  ELSE IF base = 16 THEN <<CharLowerX, Char0>>
       ELSE <<>>

\* first loop of FromString: the index of the first rejected character, or -1
RECURSIVE FromStringCheck(_, _, _)
FromStringCheck(input, base, i) ==
  IF i < Len(input)
  THEN IF i = 0 /\ CharAt(input, 0) = CharMinus THEN FromStringCheck(input, base, i + 1)
       ELSE LET digit == CharToDigit(CharAt(input, i))
            IN IF digit >= base \/ digit = -1 THEN i
               ELSE FromStringCheck(input, base, i + 1)
  ELSE -1

\* second loop of FromString: iter walks from the last character to the first
RECURSIVE FromStringLoop(_, _, _, _, _)
FromStringLoop(input, base, iter, result, base_power) ==
  IF iter >= 0
  THEN IF CharAt(input, iter) = CharMinus
       THEN FromStringLoop(input, base, iter - 1, result, base_power)
       ELSE FromStringLoop(input, base, iter - 1,
              OperatorPlus(result, MultiplyByShort(base_power, CharToDigit(CharAt(input, iter)))),
              MultiplyByShort(base_power, base))
  ELSE result

FromString(input, base) ==
  IF ThrowIfBaseIsInvalid(base) THEN Throw("Invalid base")
  ELSE LET bad == FromStringCheck(input, base, 0)
       IN IF bad # -1 THEN ThrowAt("Invalid symbol at index", bad)
          ELSE LET result == FromStringLoop(input, base, Len(input) - 1,
                                            BigInteger(0), BigInteger(1))
               IN Return(IF CharAt(input, 0) = CharMinus THEN OperatorNeg(result) ELSE result)

\* the while loop of ToString
RECURSIVE ToStringLoop(_, _, _)
ToStringLoop(temp, base, reversed_result) ==
  IF OperatorNe(temp, BigInteger(0))
  THEN LET quotient == OperatorDiv(temp, BigInteger(base)).val
           digit == OperatorInt64(OperatorMinus(temp, MultiplyByShort(quotient, base))).val
       IN ToStringLoop(quotient, base, Append(reversed_result, DigitToChar(digit)))
  ELSE reversed_result

ToString(this, base, should_show_base) ==
  IF ThrowIfBaseIsInvalid(base) THEN Throw("Invalid base")
  ELSE LET digits == ToStringLoop(Abs(this), base,
                       IF OperatorEq(this, BigInteger(0)) THEN <<Char0>> ELSE <<>>)
           prefixed == IF should_show_base THEN digits \o GetReversedBasePrefix(base) ELSE digits
           signed == IF OperatorLt(this, BigInteger(0)) THEN Append(prefixed, CharMinus) ELSE prefixed
       IN Return(Reverse(signed))

\* the mathematical value of a representation: sign * sum of limb[i] * B^i
RECURSIVE MagnitudeFrom(_, _)
MagnitudeFrom(d, k) == IF k > Len(d) THEN 0 ELSE d[k] + Radix * MagnitudeFrom(d, k + 1)

Magnitude(a) == MagnitudeFrom(a.digits, 1)

Value(a) == IF a.is_negative THEN -Magnitude(a) ELSE Magnitude(a)

\* ======================= the state machine =======================
\* x, y   two BigInteger objects of the program
\* call   the last call made: its name and the arguments it was given
\* ret    what that call returned or threw
\* text, base   a std::string and an int of the program, arguments of the
\*              text conversions
\* stream   a std::stringstream of the program: its format flags and the
\*          characters written to it and not yet read
\* stack    the call stack of an arithmetic operation executed step by step:
\*          one frame per active call of operator+, -, *, / or int64_t
\* ptrs, counters, object, fault   the smart pointers of shared_ptr.h and
\*          weak_ptr.h: the pointer variables of the program, the Counter
\*          blocks on the heap, the managed object, and the first invalid
\*          memory access made (also by a list operation)
\* tree     a BinarySearchTree of binary_search_tree.h: its TreeNodes on the
\*          heap and its fields size_, root_, begin_, rbegin_
\* lists, cells   the BiDirectionalList variables of the program and the
\*          Nodes of bidirectional_list.h on the heap
VARIABLES x, y, call, ret, text, base, stream, stack, ptrs, counters, object, fault,
          tree, lists, cells

pointers == <<ptrs, counters, object, fault>>

containers == <<tree, lists, cells>>

\* the state outside the BigInteger objects and their calls
elsewhere == <<stream, stack, pointers, containers>>

vars == <<x, y, call, ret, text, base, elsewhere>>

\* a freshly constructed stream: decimal, no showbase, nothing written
NewStream == [basefield |-> "dec", showbase |-> FALSE, buffer |-> <<>>]

\* ---- bounds of the pointer model ----
MaxBlocks == 4      \* Counter blocks the program may allocate

\* the pointer variables of the program
SharedNames == {"s1", "s2"}

WeakNames == {"w1", "w2"}

\* a variable that is not (or no longer) in scope
OutOfScope == [alive |-> FALSE, ptr_ |-> "nullptr", counter_ |-> 0]

\* a heap block that was never allocated
Unallocated == [state |-> "unallocated", use_count |-> 0, weak_use_count |-> 0, frees |-> 0]

\* ---- bounds of the container models ----
MaxTreeNodes == 5   \* TreeNodes the program may allocate
MaxKey == 3         \* the values stored are 1..MaxKey
MaxCells == 4       \* list Nodes the program may allocate
MaxListValue == 2   \* the values stored in a list are 1..MaxListValue

\* a TreeNode that was never allocated; 0 stands for nullptr
NoTreeNode == [state |-> "unallocated", value |-> 0, left |-> 0, right |-> 0, parent |-> 0]

\* BinarySearchTree() = default
EmptyTree ==
  [nodes |-> [n \in 1..MaxTreeNodes |-> NoTreeNode],
   size_ |-> 0, root_ |-> 0, begin_ |-> 0, rbegin_ |-> 0]

ListNames == {"a", "b"}

\* the list objects: the variables and the parameter of CopyFieldsFrom
ListObjects == ListNames \cup {"source"}

\* a list variable that is not (or no longer) in scope
NoList == [alive |-> FALSE, front_ |-> 0, back_ |-> 0, size_ |-> 0]

\* a list Node that was never allocated
NoCell == [state |-> "unallocated", value |-> 0, prev_ |-> 0, next_ |-> 0, frees |-> 0]

\* before the program runs: no stream output, no call in progress, no pointer
\* variable in scope, the object allocated by new T and not yet owned, an
\* empty tree, no list in scope
NothingElse ==
  /\ tree = EmptyTree
  /\ lists = [l \in ListObjects |-> NoList]
  /\ cells = [c \in 1..MaxCells |-> NoCell]
  /\ stream = NewStream
  /\ stack = <<>>
  /\ ptrs = [p \in SharedNames \cup WeakNames |-> OutOfScope]
  /\ counters = [c \in 1..MaxBlocks |-> Unallocated]
  /\ object = [handed |-> FALSE, deletes |-> 0]
  /\ fault = "none"

Call(op, this, rhs, n, input, flag) ==
  [op |-> op, this |-> this, rhs |-> rhs, n |-> n, input |-> input, flag |-> flag]

NativeInputs == -MaxInt..MaxInt

\* the native operands of the mixed calls: zero, a negative, a two-limb value
FewNatives == {0, -2, Radix + 1}

Moduli == 0..MaxMod

Fits(a) == Magnitude(a) <= MaxValue

\* calls that return a BigInteger
BigIntegerOps == {"BigInteger", "Plus", "Minus", "Times", "Div", "DivInt", "IntDiv",
                  "UnaryMinus", "PlusAssign", "MinusAssign", "TimesAssign", "DivAssign",
                  "PreIncrement", "PostIncrement", "PreDecrement", "PostDecrement",
                  "FromString", "Assign"}

Init ==
  /\ x \in {BigInteger(v) : v \in NativeInputs}
  /\ y \in {BigInteger(v) : v \in NativeInputs}
  /\ call = Call("none", DefaultBigInteger, DefaultBigInteger, 0, <<>>, FALSE)
  /\ ret = Return(NoValue)
  /\ text = <<>>
  /\ base = 10
  /\ NothingElse

\* BigInteger(v)
Construct(v) ==
  /\ call' = Call("BigInteger", DefaultBigInteger, DefaultBigInteger, v, <<>>, FALSE)
  /\ ret' = Return(BigInteger(v))
  /\ UNCHANGED <<elsewhere, x, y, text, base>>

\* x = <the BigInteger just returned>,  y = <the BigInteger just returned>
AssignX ==
  /\ call.op \in BigIntegerOps \ {"Assign"}
  /\ ret.exc = "none"
  /\ Fits(ret.val)
  /\ x' = ret.val
  /\ call' = Call("Assign", x, ret.val, 0, <<>>, FALSE)
  /\ ret' = Return(ret.val)
  /\ UNCHANGED <<elsewhere, y, text, base>>

AssignY ==
  /\ call.op \in BigIntegerOps \ {"Assign"}
  /\ ret.exc = "none"
  /\ Fits(ret.val)
  /\ y' = ret.val
  /\ call' = Call("Assign", y, ret.val, 0, <<>>, FALSE)
  /\ ret' = Return(ret.val)
  /\ UNCHANGED <<elsewhere, x, text, base>>

\* a call on x and y that returns a value and changes neither
Pure(op, n, outcome) ==
  /\ call' = Call(op, x, y, n, <<>>, FALSE)
  /\ ret' = outcome
  /\ UNCHANGED <<elsewhere, x, y, text, base>>

Plus == Pure("Plus", 0, Return(OperatorPlus(x, y)))

Minus == Pure("Minus", 0, Return(OperatorMinus(x, y)))

Times == Pure("Times", 0, Return(OperatorTimes(x, y)))

Div == Pure("Div", 0, OperatorDiv(x, y))

UnaryMinus == Pure("UnaryMinus", 0, Return(OperatorNeg(x)))

\* x / v  and  v / x  with a native v
DivInt(v) ==
  /\ call' = Call("DivInt", x, BigInteger(v), v, <<>>, FALSE)
  /\ ret' = OperatorDiv(x, BigInteger(v))
  /\ UNCHANGED <<elsewhere, x, y, text, base>>

IntDiv(v) ==
  /\ call' = Call("IntDiv", BigInteger(v), x, v, <<>>, FALSE)
  /\ ret' = OperatorDiv(BigInteger(v), x)
  /\ UNCHANGED <<elsewhere, x, y, text, base>>

\* x % m
Mod(m) == Pure("Mod", m, OperatorMod(x, m))

\* the six relational operators on x and y
Compare ==
  Pure("Compare", 0,
       Return([eq |-> OperatorEq(x, y), ne |-> OperatorNe(x, y), lt |-> OperatorLt(x, y),
               gt |-> OperatorGt(x, y), le |-> OperatorLe(x, y), ge |-> OperatorGe(x, y)]))

\* x op= y : *this = *this op rhs; nothing is assigned when the right side throws
Compound(op, outcome) ==
  /\ outcome.exc = "none" => Fits(outcome.val)
  /\ call' = Call(op, x, y, 0, <<>>, FALSE)
  /\ ret' = outcome
  /\ x' = IF outcome.exc = "none" THEN outcome.val ELSE x
  /\ UNCHANGED <<elsewhere, y, text, base>>

PlusAssign == Compound("PlusAssign", Return(OperatorPlus(x, y)))

MinusAssign == Compound("MinusAssign", Return(OperatorMinus(x, y)))

TimesAssign == Compound("TimesAssign", Return(OperatorTimes(x, y)))

DivAssign == Compound("DivAssign", OperatorDiv(x, y))

\* ++x, x++, --x, x-- : the pre forms return the new value, the post forms the old
Step(op, new, returned) ==
  /\ Fits(new)
  /\ call' = Call(op, x, BigInteger(1), 1, <<>>, FALSE)
  /\ ret' = Return(returned)
  /\ x' = new
  /\ UNCHANGED <<elsewhere, y, text, base>>

PreIncrement == Step("PreIncrement", OperatorPlus(x, BigInteger(1)), OperatorPlus(x, BigInteger(1)))

PostIncrement == Step("PostIncrement", OperatorPlus(x, BigInteger(1)), x)

PreDecrement == Step("PreDecrement", OperatorMinus(x, BigInteger(1)), OperatorMinus(x, BigInteger(1)))

PostDecrement == Step("PostDecrement", OperatorMinus(x, BigInteger(1)), x)

\* BigInteger::FromString(input, b)
FromStringCall(input, b) ==
  /\ call' = Call("FromString", DefaultBigInteger, DefaultBigInteger, b, input, FALSE)
  /\ ret' = FromString(input, b)
  /\ UNCHANGED <<elsewhere, x, y, text, base>>

\* x.ToString(b, flag)
ToStringCall(b, flag) ==
  /\ call' = Call("ToString", x, DefaultBigInteger, b, <<>>, flag)
  /\ ret' = ToString(x, b, flag)
  /\ UNCHANGED <<elsewhere, x, y, text, base>>

\* texts the arithmetic specification parses: "-0", "-", "", "-1", "13"
FewTexts == {<<CharMinus, Char0>>, <<CharMinus>>, <<>>, <<CharMinus, Char0 + 1>>, <<Char0 + 1, Char0 + 3>>}

Next ==
  \/ \E v \in FewNatives : Construct(v)
  \/ AssignX
  \/ AssignY
  \/ Plus
  \/ Minus
  \/ Times
  \/ Div
  \/ UnaryMinus
  \/ \E v \in FewNatives : DivInt(v)
  \/ \E v \in FewNatives : IntDiv(v)
  \/ \E m \in Moduli : Mod(m)
  \/ Compare
  \/ PlusAssign
  \/ MinusAssign
  \/ TimesAssign
  \/ DivAssign
  \/ PreIncrement
  \/ PostIncrement
  \/ PreDecrement
  \/ PostDecrement
  \/ \E t \in FewTexts : FromStringCall(t, 4)

Spec == Init /\ [][Next]_vars

\* ---- the text conversions on their own ----
\* characters of the texts: '-', '/', '0', '1', '9', 'A' (65), 'a', 'z', '{'
TextChars == {CharMinus, Char0 - 1, Char0, Char0 + 1, Char9, 65,
              CharLowerA, CharLowerZ, CharLowerZ + 1}

RECURSIVE TextsOfLength(_)
TextsOfLength(n) ==
  IF n = 0 THEN {<<>>}
  ELSE {Append(t, c) : t \in TextsOfLength(n - 1), c \in TextChars}

Texts == UNION {TextsOfLength(n) : n \in 0..MaxStrLen}

Bases == -1..MaxBase

\* either an object built from a native integer, or a text about to be parsed
InitText ==
  /\ \/ /\ x \in {BigInteger(v) : v \in -MaxTextInt..MaxTextInt}
        /\ text = <<>>
     \/ /\ x = BigInteger(0)
        /\ text \in Texts
  /\ base \in Bases
  /\ y = BigInteger(0)
  /\ call = Call("none", DefaultBigInteger, DefaultBigInteger, 0, <<>>, FALSE)
  /\ ret = Return(NoValue)
  /\ NothingElse

\* x = BigInteger::FromString(text, base)
ParseAssign ==
  /\ call' = Call("FromString", DefaultBigInteger, DefaultBigInteger, base, text, FALSE)
  /\ ret' = FromString(text, base)
  /\ x' = IF ret'.exc = "none" THEN ret'.val ELSE x
  /\ UNCHANGED <<elsewhere, y, text, base>>

\* text = x.ToString(base)
RenderAssign ==
  /\ call' = Call("ToString", x, DefaultBigInteger, base, <<>>, FALSE)
  /\ ret' = ToString(x, base, FALSE)
  /\ text' = IF ret'.exc = "none" THEN ret'.val ELSE text
  /\ UNCHANGED <<elsewhere, x, y, base>>

NextText ==
  \/ FromStringCall(text, base)
  \/ ParseAssign
  \/ \E flag \in BOOLEAN : ToStringCall(base, flag)
  \/ RenderAssign

SpecText == InitText /\ [][NextText]_vars

\* ---- the stream operators ----
IsShowbaseSet(ostream) == ostream.showbase

GetStreamBase(a_stream) ==
  IF a_stream.basefield = "hex" THEN 16
  ELSE IF a_stream.basefield = "oct" THEN 8
       ELSE 10

\* what operator<< inserts in front of str: with showbase set, in each of
\* the hex, oct and decimal branches, a '-' for a negative big_int
InsertedBeforeStr(os, negative) ==
  IF os.showbase
  THEN IF os.basefield = "hex"
       THEN IF negative THEN <<CharMinus>> ELSE <<>>
       ELSE IF os.basefield = "oct"
            THEN IF negative THEN <<CharMinus>> ELSE <<>>
            ELSE IF negative THEN <<CharMinus>> ELSE <<>>
  ELSE <<>>

\* os << big_int : the stream afterwards.  str is the std::string ToString(10)
\* of big_int; the manipulators std::hex, std::oct and std::showbase in front
\* of it set flags that are already set and leave its characters alone
OperatorShiftLeft(os, big_int) ==
  [os EXCEPT !.buffer = os.buffer
                          \o InsertedBeforeStr(os, OperatorLt(big_int, BigInteger(0)))
                          \o ToString(big_int, 10, FALSE).val]

\* number.substr(pos, number.size() - pos): std::out_of_range when pos > size
Substr(number, pos) ==
  IF pos > Len(number) THEN Throw("out_of_range")
  ELSE Return(SubSeq(number, pos + 1, Len(number)))

\* is >> big_int : what it throws or the new value of big_int.  The token is
\* everything in the buffer; number.at(0) throws std::out_of_range on an
\* empty token
OperatorShiftRight(is, big_int) ==
  LET number == is.buffer
  IN IF Len(number) = 0 THEN Throw("out_of_range")
     ELSE LET minus == number[1] = CharMinus
              sign == IF minus THEN -1 ELSE 1
              erased == IF minus THEN Tail(number) ELSE number
              stripped == IF is.basefield = "hex" THEN Substr(erased, 2)
                          ELSE IF is.basefield = "oct" THEN Substr(erased, 1)
                               ELSE Return(erased)
          IN IF stripped.exc # "none" THEN stripped
             ELSE LET parsed == FromString(stripped.val, GetStreamBase(is))
                  IN IF parsed.exc # "none" THEN parsed
                     ELSE Return(OperatorTimes(parsed.val, BigInteger(sign)))

InitStream ==
  /\ x \in {BigInteger(v) : v \in -MaxTextInt..MaxTextInt}
  /\ y = BigInteger(0)
  /\ call = Call("none", DefaultBigInteger, DefaultBigInteger, 0, <<>>, FALSE)
  /\ ret = Return(NoValue)
  /\ text = <<>>
  /\ base = 10
  /\ NothingElse

\* stream << std::hex, std::oct, std::dec
SetBase(field) ==
  /\ stream.buffer = <<>>
  /\ stream' = [stream EXCEPT !.basefield = field]
  /\ call' = Call("Manipulator", DefaultBigInteger, DefaultBigInteger, 0, <<>>, FALSE)
  /\ ret' = Return(NoValue)
  /\ UNCHANGED <<x, y, text, base, stack, pointers, containers>>

\* stream << std::showbase, std::noshowbase
SetShowbase(flag) ==
  /\ stream.buffer = <<>>
  /\ stream' = [stream EXCEPT !.showbase = flag]
  /\ call' = Call("Manipulator", DefaultBigInteger, DefaultBigInteger, 0, <<>>, FALSE)
  /\ ret' = Return(NoValue)
  /\ UNCHANGED <<x, y, text, base, stack, pointers, containers>>

\* stream << x
Write ==
  /\ stream.buffer = <<>>
  /\ stream' = OperatorShiftLeft(stream, x)
  /\ call' = Call("Write", x, DefaultBigInteger, 0, <<>>, FALSE)
  /\ ret' = Return(NoValue)
  /\ UNCHANGED <<x, y, text, base, stack, pointers, containers>>

\* stream << x.ToString(GetStreamBase(stream), flag)
WriteRendered(flag) ==
  /\ stream.buffer = <<>>
  /\ stream' = [stream EXCEPT !.buffer = ToString(x, GetStreamBase(stream), flag).val]
  /\ call' = Call("WriteRendered", x, DefaultBigInteger, GetStreamBase(stream), <<>>, flag)
  /\ ret' = Return(NoValue)
  /\ UNCHANGED <<x, y, text, base, stack, pointers, containers>>

\* stream >> x : the token is consumed; x is assigned unless something throws.
\* Values beyond MaxTextInt are not read back, to keep the objects bounded
Read ==
  /\ call' = Call("Read", x, DefaultBigInteger, GetStreamBase(stream), stream.buffer, FALSE)
  /\ ret' = OperatorShiftRight(stream, x)
  /\ ret'.exc = "none" => Magnitude(ret'.val) <= MaxTextInt
  /\ x' = IF ret'.exc = "none" THEN ret'.val ELSE x
  /\ stream' = [stream EXCEPT !.buffer = <<>>]
  /\ UNCHANGED <<y, text, base, stack, pointers, containers>>

NextStream ==
  \/ \E field \in {"dec", "hex", "oct"} : SetBase(field)
  \/ \E flag \in BOOLEAN : SetShowbase(flag)
  \/ Write
  \/ \E flag \in BOOLEAN : WriteRendered(flag)
  \/ Read

SpecStream == InitStream /\ [][NextStream]_vars

\* ---- the conversion to the native integer on its own ----
\* what a signed overflow in the conversion's arithmetic can come to: the
\* two's-complement wrap of the result, or a trap that ends the program
Wrap(n) == ((n - INT64_MIN) % (2 * (INT64_MAX + 1))) + INT64_MIN

Trap == [exc |-> "signed overflow trap", val |-> NoValue, index |-> -1]

\* the outcomes of int64_t(a): the exception, the value, or, when a signed
\* intermediate left the native range, any of the outcomes of the overflow
Int64Outcomes(a) ==
  LET converted == OperatorInt64(a)
  IN IF converted.exc # "none" THEN {Throw(converted.exc)}
     ELSE IF converted.ub THEN {Return(Wrap(converted.val)), Trap}
          ELSE {Return(converted.val)}

\* the native values next to the ends of the native range, and zero
NativeEdges == {INT64_MIN, INT64_MIN + 1, 0, INT64_MAX - 1, INT64_MAX}

InitNative ==
  /\ x \in {BigInteger(v) : v \in NativeEdges}
  /\ y \in {BigInteger(-1), BigInteger(1)}
  /\ call = Call("none", DefaultBigInteger, DefaultBigInteger, 0, <<>>, FALSE)
  /\ ret = Return(NoValue)
  /\ text = <<>>
  /\ base = 10
  /\ NothingElse

\* static_cast<int64_t>(BigInteger(n))
Int64OfNative(n) ==
  /\ call' = Call("Int64OfNative", BigInteger(n), DefaultBigInteger, n, <<>>, FALSE)
  /\ ret' \in Int64Outcomes(BigInteger(n))
  /\ UNCHANGED <<elsewhere, x, y, text, base>>

\* static_cast<int64_t>(x + y)
Int64OfSum ==
  /\ call' = Call("Int64", OperatorPlus(x, y), DefaultBigInteger, 0, <<>>, FALSE)
  /\ ret' \in Int64Outcomes(OperatorPlus(x, y))
  /\ UNCHANGED <<elsewhere, x, y, text, base>>

NextNative ==
  \/ \E n \in INT64_MIN..INT64_MAX : Int64OfNative(n)
  \/ Int64OfSum

SpecNative == InitNative /\ [][NextNative]_vars

\* ---- the native intermediates of MultiplyByShort and GuessDigit ----
\* the largest value the accumulator digit of MultiplyByShort takes
RECURSIVE MultiplyByShortPeakFrom(_, _, _, _)
MultiplyByShortPeakFrom(lhs, rhs, i, carry) ==
  IF i < NumberOfDigits(lhs) \/ carry # 0
  THEN LET digit == carry + (IF i < NumberOfDigits(lhs) THEN DigitAt(lhs, i) * rhs ELSE 0)
           later == MultiplyByShortPeakFrom(lhs, rhs, i + 1, CDiv(digit, internal_base))
       IN IF digit > later THEN digit ELSE later
  ELSE 0

MultiplyByShortPeak(lhs, rhs) == MultiplyByShortPeakFrom(lhs, rhs, 0, 0)

\* the largest sum quotient_l_bound + quotient_u_bound GuessDigit forms
RECURSIVE GuessDigitPeakFrom(_, _, _, _)
GuessDigitPeakFrom(lhs, rhs, quotient_l_bound, quotient_u_bound) ==
  IF quotient_l_bound + 1 < quotient_u_bound
  THEN LET sum == quotient_l_bound + quotient_u_bound
           middle_candidate == CDiv(sum, 2)
           later == IF OperatorGt(MultiplyByShort(rhs, middle_candidate), lhs)
                    THEN GuessDigitPeakFrom(lhs, rhs, quotient_l_bound, middle_candidate)
                    ELSE GuessDigitPeakFrom(lhs, rhs, middle_candidate, quotient_u_bound)
       IN IF sum > later THEN sum ELSE later
  ELSE 0

GuessDigitPeak(lhs, rhs) == GuessDigitPeakFrom(lhs, rhs, 0, internal_base)

\* ---- the arithmetic operators executed step by step ----
\* A frame is one active call: fn the function, pc where it stands, this and
\* rhs its operands, and its locals: i, carry, digit and result of operator+,
\* i and result of operator*, i, result (reversed_result), trailing
\* (trailing_dividend) and digit of operator/, i, total (result), power and
\* product (digit * power) of operator int64_t.
MaxStepInt == 9     \* operands of the stepped operations are in -MaxStepInt..MaxStepInt
MaxSteps == 6       \* no loop of a stepped operation is followed beyond this index
MaxDepth == 8       \* no call is made with this many frames on the stack

Frame(fn, this, rhs) ==
  [fn |-> fn, pc |-> "entry", this |-> this, rhs |-> rhs, i |-> 0, carry |-> 0,
   digit |-> 0, result |-> DefaultBigInteger, trailing |-> DefaultBigInteger,
   total |-> 0, power |-> 1, product |-> 0]

Top == stack[Len(stack)]

Running(fn, pc) == Len(stack) > 0 /\ Top.fn = fn /\ Top.pc = pc

\* the top frame goes on as f
Goto(f) == stack' = [stack EXCEPT ![Len(stack)] = f]

\* the top frame becomes f and calls fn(this, rhs)
CallFrom(f, fn, this, rhs) ==
  /\ Len(stack) < MaxDepth
  /\ stack' = Append([stack EXCEPT ![Len(stack)] = f], Frame(fn, this, rhs))

\* the top frame returns v to its caller
ReturnFromTop(v) ==
  /\ stack' = SubSeq(stack, 1, Len(stack) - 1)
  /\ ret' = Return(v)

StepOperands == {BigInteger(v) : v \in -MaxStepInt..MaxStepInt} \cup {Negate(BigInteger(0))}

InitSteps ==
  /\ x \in StepOperands
  /\ y \in StepOperands
  /\ call = Call("none", DefaultBigInteger, DefaultBigInteger, 0, <<>>, FALSE)
  /\ ret = Return(NoValue)
  /\ text = <<>>
  /\ base = 10
  /\ NothingElse

\* the program calls x + y, x - y, x * y or x / y
Begin(fn) ==
  /\ call.op = "none"
  /\ stack = <<>>
  /\ stack' = <<Frame(fn, x, y)>>
  /\ call' = Call(fn, x, y, 0, <<>>, FALSE)
  /\ UNCHANGED <<x, y, ret, text, base, stream, pointers, containers>>

\* the program calls static_cast<int64_t>(BigInteger(n))
BeginInt64(n) ==
  /\ call.op = "none"
  /\ stack = <<>>
  /\ stack' = <<Frame("int64", BigInteger(n), DefaultBigInteger)>>
  /\ call' = Call("int64", BigInteger(n), DefaultBigInteger, n, <<>>, FALSE)
  /\ UNCHANGED <<x, y, ret, text, base, stream, pointers, containers>>

\* operator+ up to its loop: rhs + *this, -(-*this + -rhs), or the loop
PlusEntry ==
  /\ Running("plus", "entry")
  /\ IF CompareAbsoluteValues(Top.this, Top.rhs) = -1
     THEN CallFrom([Top EXCEPT !.pc = "pass"], "plus", Top.rhs, Top.this)
     ELSE IF OperatorLt(Top.this, BigInteger(0))
          THEN CallFrom([Top EXCEPT !.pc = "negate"], "plus",
                        OperatorNeg(Top.this), OperatorNeg(Top.rhs))
          ELSE Goto([Top EXCEPT !.pc = "loop"])
  /\ UNCHANGED <<x, y, call, ret, text, base, stream, pointers, containers>>

\* one pass of the loop of operator+
PlusIterate ==
  /\ Running("plus", "loop")
  /\ Top.i < NumberOfDigits(Top.this) \/ Top.carry # 0
  /\ Top.i < MaxSteps
  /\ LET digit == Top.carry
                  + (IF Top.i < NumberOfDigits(Top.this) THEN DigitAt(Top.this, Top.i) ELSE 0)
                  + (IF Top.i < NumberOfDigits(Top.rhs) THEN SignedDigitAt(Top.rhs, Top.i) ELSE 0)
         pushed == PushLeadingDigit(Top.result, RemainderByBase(digit))
     IN Goto([Top EXCEPT !.digit = digit, !.result = pushed, !.i = Top.i + 1,
                         !.carry = CDiv(digit - LeadingDigit(pushed), internal_base)])
  /\ UNCHANGED <<x, y, call, ret, text, base, stream, pointers, containers>>

\* the loop of operator+ is over: result.RemoveZeroes(); return result
PlusReturn ==
  /\ Running("plus", "loop")
  /\ ~(Top.i < NumberOfDigits(Top.this) \/ Top.carry # 0)
  /\ ReturnFromTop(RemoveZeroes(Top.result))
  /\ UNCHANGED <<x, y, call, text, base, stream, pointers, containers>>

\* operator- : -(-*this + rhs) or *this + -rhs
MinusEntry ==
  /\ Running("minus", "entry")
  /\ IF OperatorLt(Top.this, BigInteger(0))
     THEN CallFrom([Top EXCEPT !.pc = "negate"], "plus", OperatorNeg(Top.this), Top.rhs)
     ELSE CallFrom([Top EXCEPT !.pc = "pass"], "plus", Top.this, OperatorNeg(Top.rhs))
  /\ UNCHANGED <<x, y, call, ret, text, base, stream, pointers, containers>>

\* return <what the call returned>
ResumePass ==
  /\ Len(stack) > 0 /\ Top.pc = "pass"
  /\ ReturnFromTop(ret.val)
  /\ UNCHANGED <<x, y, call, text, base, stream, pointers, containers>>

\* return -<what the call returned>
ResumeNegate ==
  /\ Len(stack) > 0 /\ Top.pc = "negate"
  /\ ReturnFromTop(OperatorNeg(ret.val))
  /\ UNCHANGED <<x, y, call, text, base, stream, pointers, containers>>

\* operator* up to its loop
TimesEntry ==
  /\ Running("times", "entry")
  /\ IF OperatorLt(Top.this, BigInteger(0))
     THEN CallFrom([Top EXCEPT !.pc = "negate"], "times", OperatorNeg(Top.this), Top.rhs)
     ELSE IF OperatorLt(Top.rhs, BigInteger(0))
          THEN CallFrom([Top EXCEPT !.pc = "negate"], "times", Top.this, OperatorNeg(Top.rhs))
          ELSE Goto([Top EXCEPT !.pc = "loop", !.result = BigInteger(0)])
  /\ UNCHANGED <<x, y, call, ret, text, base, stream, pointers, containers>>

\* one pass of the loop of operator* up to the call of result += lhs_times_digit
TimesIterate ==
  /\ Running("times", "loop")
  /\ Top.i < NumberOfDigits(Top.rhs)
  /\ Top.i < MaxSteps
  /\ LET lhs_times_digit ==
           InsertLeastSignificantDigits(MultiplyByShort(Top.this, DigitAt(Top.rhs, Top.i)), 0, Top.i)
     IN CallFrom([Top EXCEPT !.pc = "added"], "plus", Top.result, lhs_times_digit)
  /\ UNCHANGED <<x, y, call, ret, text, base, stream, pointers, containers>>

\* result = <the sum returned>; i++
TimesAdded ==
  /\ Running("times", "added")
  /\ Goto([Top EXCEPT !.pc = "loop", !.result = ret.val, !.i = Top.i + 1])
  /\ UNCHANGED <<x, y, call, ret, text, base, stream, pointers, containers>>

TimesReturn ==
  /\ Running("times", "loop")
  /\ ~(Top.i < NumberOfDigits(Top.rhs))
  /\ ReturnFromTop(RemoveZeroes(Top.result))
  /\ UNCHANGED <<x, y, call, text, base, stream, pointers, containers>>

\* operator/ with a zero divisor: the exception leaves every frame
DivThrow ==
  /\ Running("div", "entry")
  /\ OperatorEq(Top.rhs, BigInteger(0))
  /\ stack' = <<>>
  /\ ret' = Throw("DivisionByZeroError")
  /\ UNCHANGED <<x, y, call, text, base, stream, pointers, containers>>

\* operator/ up to its loop
DivEntry ==
  /\ Running("div", "entry")
  /\ ~OperatorEq(Top.rhs, BigInteger(0))
  /\ IF OperatorLt(Top.this, BigInteger(0))
     THEN CallFrom([Top EXCEPT !.pc = "negate"], "div", OperatorNeg(Top.this), Top.rhs)
     ELSE IF OperatorLt(Top.rhs, BigInteger(0))
          THEN CallFrom([Top EXCEPT !.pc = "negate"], "div", Top.this, OperatorNeg(Top.rhs))
          ELSE Goto([Top EXCEPT !.pc = "loop", !.i = NumberOfDigits(Top.this) - 1,
                                !.result = BigInteger(0), !.trailing = BigInteger(0)])
  /\ UNCHANGED <<x, y, call, ret, text, base, stream, pointers, containers>>

\* one pass of the loop of operator/ :
\* trailing_dividend.InsertLeastSignificantDigit(DigitAt(i));
\* digit = GuessDigit(trailing_dividend, rhs)
DivGuess ==
  /\ Running("div", "loop")
  /\ Top.i >= 0
  /\ Goto([Top EXCEPT
             !.pc = "guessed",
             !.trailing = InsertLeastSignificantDigit(Top.trailing, DigitAt(Top.this, Top.i)),
             !.digit = GuessDigit(InsertLeastSignificantDigit(Top.trailing, DigitAt(Top.this, Top.i)),
                                  Top.rhs)])
  /\ UNCHANGED <<x, y, call, ret, text, base, stream, pointers, containers>>

\* reversed_result.PushDigitToEnd(digit); the call of
\* trailing_dividend -= MultiplyByShort(rhs, digit)
DivSubtract ==
  /\ Running("div", "guessed")
  /\ CallFrom([Top EXCEPT !.pc = "subtracted", !.result = PushDigitToEnd(Top.result, Top.digit)],
              "minus", Top.trailing, MultiplyByShort(Top.rhs, Top.digit))
  /\ UNCHANGED <<x, y, call, ret, text, base, stream, pointers, containers>>

\* trailing_dividend = <the difference returned>; i--
DivSubtracted ==
  /\ Running("div", "subtracted")
  /\ Goto([Top EXCEPT !.pc = "loop", !.trailing = ret.val, !.i = Top.i - 1])
  /\ UNCHANGED <<x, y, call, ret, text, base, stream, pointers, containers>>

DivReturn ==
  /\ Running("div", "loop")
  /\ Top.i < 0
  /\ ReturnFromTop(ReverseDigitsAndNormalize(Top.result))
  /\ UNCHANGED <<x, y, call, text, base, stream, pointers, containers>>

\* operator int64_t: the range check
Int64Entry ==
  /\ Running("int64", "entry")
  /\ IF OperatorGt(Top.this, BigInteger(INT64_MAX)) \/ OperatorLt(Top.this, BigInteger(INT64_MIN))
     THEN stack' = <<>> /\ ret' = Throw("int64_t overflow")
     ELSE Goto([Top EXCEPT !.pc = "loop"]) /\ ret' = ret
  /\ UNCHANGED <<x, y, call, text, base, stream, pointers, containers>>

\* one pass of the loop of operator int64_t; total and product hold what the
\* arithmetic gives before it is stored in an int64_t
Int64Iterate ==
  /\ Running("int64", "loop")
  /\ Top.i < NumberOfDigits(Top.this)
  /\ InInt64(Top.total)
  /\ LET product == DigitAt(Top.this, Top.i) * Top.power
         grows == OperatorLe(OperatorTimes(BigInteger(Top.power), BigInteger(internal_base)),
                             BigInteger(INT64_MAX))
     IN Goto([Top EXCEPT !.product = product, !.total = Top.total + product, !.i = Top.i + 1,
                         !.power = IF grows THEN Top.power * internal_base ELSE Top.power])
  /\ UNCHANGED <<x, y, call, ret, text, base, stream, pointers, containers>>

\* result left the range of int64_t: the signed overflow wraps or traps
Int64Overflow ==
  /\ Running("int64", "loop")
  /\ ~InInt64(Top.total)
  /\ \/ Goto([Top EXCEPT !.total = Wrap(Top.total)]) /\ ret' = ret
     \/ stack' = <<>> /\ ret' = Trap
  /\ UNCHANGED <<x, y, call, text, base, stream, pointers, containers>>

\* return result * Sign(), which overflows for result = INT64_MIN and -1
Int64Return ==
  /\ Running("int64", "loop")
  /\ ~(Top.i < NumberOfDigits(Top.this))
  /\ InInt64(Top.total)
  /\ stack' = SubSeq(stack, 1, Len(stack) - 1)
  /\ IF InInt64(Top.total * Sign(Top.this))
     THEN ret' = Return(Top.total * Sign(Top.this))
     ELSE ret' \in {Return(Wrap(Top.total * Sign(Top.this))), Trap}
  /\ UNCHANGED <<x, y, call, text, base, stream, pointers, containers>>

\* the steps of operator+, operator-, operator* and operator/
ArithmeticSteps ==
  \/ PlusEntry
  \/ PlusIterate
  \/ PlusReturn
  \/ MinusEntry
  \/ ResumePass
  \/ ResumeNegate
  \/ TimesEntry
  \/ TimesIterate
  \/ TimesAdded
  \/ TimesReturn
  \/ DivThrow
  \/ DivEntry
  \/ DivGuess
  \/ DivSubtract
  \/ DivSubtracted
  \/ DivReturn

\* the steps of operator int64_t
Int64Steps ==
  \/ Int64Entry
  \/ Int64Iterate
  \/ Int64Overflow
  \/ Int64Return

NextArithmetic ==
  \/ \E fn \in {"plus", "minus", "times", "div"} : Begin(fn)
  \/ ArithmeticSteps

\* an arithmetic call that has begun goes on: nothing else runs in the
\* program, and a call returns to its caller
SpecSteps == InitSteps /\ [][NextArithmetic]_vars /\ WF_vars(ArithmeticSteps)

\* the arithmetic calls and the conversion
NextSteps ==
  \/ NextArithmetic
  \/ \E n \in NativeEdges : BeginInt64(n)
  \/ Int64Steps

SpecAllSteps == InitSteps /\ [][NextSteps]_vars

\* ---- SharedPtr and WeakPtr (shared_ptr.h, weak_ptr.h) ----
\* The operations are functions of the heap h: the pointer variables, the
\* Counter blocks, the managed object and the first invalid access.  After an
\* invalid access the program has ended: no later statement changes h.
Heap == [ptrs |-> ptrs, counters |-> counters, object |-> object, fault |-> fault]

\* T* ptr_{nullptr}; Counter* counter_{nullptr};
Declare(h, p) ==
  [h EXCEPT !.ptrs[p] = [alive |-> TRUE, ptr_ |-> "nullptr", counter_ |-> 0]]

\* the variable leaves its scope after its destructor has run
Leave(h, p) == [h EXCEPT !.ptrs[p] = OutOfScope]

CopyPointersFrom(h, this, rhs) ==
  IF h.fault # "none" THEN h
  ELSE [h EXCEPT !.ptrs[this].ptr_ = h.ptrs[rhs].ptr_,
                 !.ptrs[this].counter_ = h.ptrs[rhs].counter_]

Unbind(h, this) ==
  IF h.fault # "none" THEN h
  ELSE [h EXCEPT !.ptrs[this].ptr_ = "nullptr", !.ptrs[this].counter_ = 0]

\* what an access through the pointer c to a Counter does
Access(h, c) ==
  IF c = 0 THEN "null counter"
  ELSE IF h.counters[c].state # "allocated" THEN "freed counter" ELSE "none"

\* ++this->counter_->field and --this->counter_->field
CounterAdd(h, this, field, d) ==
  LET c == h.ptrs[this].counter_ IN
  IF h.fault # "none" THEN h
  ELSE IF Access(h, c) # "none" THEN [h EXCEPT !.fault = Access(h, c)]
       ELSE [h EXCEPT !.counters[c][field] = @ + d]

\* the block new Counter(1) returns: one that was never handed out
CanAllocate(h) == \E c \in 1..MaxBlocks : h.counters[c].state = "unallocated"

NewCounter(h) ==
  CHOOSE c \in 1..MaxBlocks :
    /\ h.counters[c].state = "unallocated"
    /\ \A d \in 1..(c - 1) : h.counters[d].state # "unallocated"

\* delete this->counter_
DeleteCounter(h, c) ==
  IF h.fault # "none" THEN h
  ELSE IF h.counters[c].state # "allocated"
       THEN [h EXCEPT !.fault = "double free", !.counters[c].frees = @ + 1]
       ELSE [h EXCEPT !.counters[c].state = "freed", !.counters[c].frees = @ + 1]

\* delete this->ptr_ (nothing for a null pointer)
DeleteObject(h, this) ==
  IF h.fault # "none" \/ h.ptrs[this].ptr_ = "nullptr" THEN h
  ELSE IF h.object.deletes > 0
       THEN [h EXCEPT !.fault = "double delete", !.object.deletes = @ + 1]
       ELSE [h EXCEPT !.object.deletes = @ + 1]

InitNullptr(h, this) ==
  IF h.fault # "none" THEN h
  ELSE [h EXCEPT !.ptrs[this].ptr_ = "nullptr",
                 !.ptrs[this].counter_ = NewCounter(h),
                 !.counters[NewCounter(h)] =
                   [state |-> "allocated", use_count |-> 1, weak_use_count |-> 0, frees |-> 0]]

ReleaseMemory(h, this) ==
  LET c == h.ptrs[this].counter_
      decremented == CounterAdd(h, this, "use_count", -1)
      deleted == DeleteObject(decremented, this)
  IN IF h.fault # "none" \/ c = 0 THEN h
     ELSE IF decremented.fault # "none" THEN decremented
          ELSE IF decremented.counters[c].use_count = 0
               THEN IF deleted.fault = "none" /\ deleted.counters[c].weak_use_count = 0
                    THEN Unbind(DeleteCounter(deleted, c), this)
                    ELSE Unbind(deleted, this)
               ELSE Unbind(decremented, this)

\* explicit SharedPtr(T* ptr)
SharedFromPointer(h, this) ==
  [h EXCEPT !.ptrs[this].ptr_ = "object",
            !.ptrs[this].counter_ = NewCounter(h),
            !.counters[NewCounter(h)] =
              [state |-> "allocated", use_count |-> 1, weak_use_count |-> 0, frees |-> 0],
            !.object.handed = TRUE]

\* SharedPtr& operator=(const SharedPtr& rhs)
SharedOperatorAssign(h, this, rhs) ==
  IF this = rhs THEN h
  ELSE CounterAdd(CopyPointersFrom(ReleaseMemory(h, this), this, rhs), this, "use_count", 1)

\* SharedPtr& operator=(SharedPtr&& rhs)
SharedOperatorMoveAssign(h, this, rhs) ==
  IF this = rhs THEN h
  ELSE Unbind(CopyPointersFrom(ReleaseMemory(h, this), this, rhs), rhs)

\* SharedPtr(T* ptr, Counter* imposed_counter)
SharedImposed(h, this, ptr, imposed_counter) ==
  LET bound == [h EXCEPT !.ptrs[this].ptr_ = ptr, !.ptrs[this].counter_ = imposed_counter]
  IN IF imposed_counter # 0 THEN CounterAdd(bound, this, "use_count", 1) ELSE bound

SafeDelete(h, this) ==
  LET c == h.ptrs[this].counter_
      decremented == CounterAdd(h, this, "weak_use_count", -1)
  IN IF h.fault # "none" \/ c = 0 THEN h
     ELSE IF decremented.fault # "none" THEN decremented
          ELSE IF decremented.counters[c].use_count = 0
                    /\ decremented.counters[c].weak_use_count = 0
               THEN Unbind(DeleteCounter(decremented, c), this)
               ELSE Unbind(decremented, this)

\* explicit WeakPtr(const SharedPtr<T>& source)
WeakFromShared(h, this, source) ==
  CounterAdd(CopyPointersFrom(h, this, source), this, "weak_use_count", 1)

\* WeakPtr& operator=(const WeakPtr& rhs)
WeakOperatorAssign(h, this, rhs) ==
  IF this = rhs THEN h
  ELSE CounterAdd(CopyPointersFrom(SafeDelete(h, this), this, rhs), this, "weak_use_count", 1)

\* WeakPtr& operator=(WeakPtr&& rhs)
WeakOperatorMoveAssign(h, this, rhs) ==
  IF this = rhs THEN h
  ELSE Unbind(CopyPointersFrom(SafeDelete(h, this), this, rhs), rhs)

\* the access Expired() makes: counter_ is read only when ptr_ is not null
ExpiredAccess(h, this) ==
  IF h.ptrs[this].ptr_ = "nullptr" THEN "none" ELSE Access(h, h.ptrs[this].counter_)

ExpiredByPointer(h, this) == h.ptrs[this].ptr_ = "nullptr"

Expired(h, this) ==
  h.ptrs[this].ptr_ = "nullptr" \/ h.counters[h.ptrs[this].counter_].use_count = 0

\* SharedPtr<T> result = this->Lock(): the returned object is result itself
Lock(h, this, result) ==
  IF ExpiredAccess(h, this) # "none" THEN [h EXCEPT !.fault = ExpiredAccess(h, this)]
  ELSE IF Expired(h, this) THEN InitNullptr(Declare(h, result), result)
       ELSE SharedImposed(Declare(h, result), result, h.ptrs[this].ptr_, h.ptrs[this].counter_)

\* ---- the program: pointer variables come into scope, are assigned, reset,
\* locked and leave their scope, in any order, until an invalid access ----
InScope(p) == ptrs[p].alive

PointerCall(op, this, rhs, h) ==
  /\ fault = "none"
  /\ call' = Call(op, this, rhs, 0, <<>>, FALSE)
  /\ ptrs' = h.ptrs
  /\ counters' = h.counters
  /\ object' = h.object
  /\ fault' = h.fault
  /\ UNCHANGED <<x, y, ret, text, base, stream, stack, containers>>

SharedDefault(s) ==
  /\ ~InScope(s)
  /\ CanAllocate(Heap)
  /\ PointerCall("SharedPtr()", s, s, InitNullptr(Declare(Heap, s), s))

SharedNew(s) ==
  /\ ~InScope(s)
  /\ ~object.handed
  /\ CanAllocate(Heap)
  /\ PointerCall("SharedPtr(T*)", s, s, SharedFromPointer(Declare(Heap, s), s))

SharedCopy(s, source) ==
  /\ ~InScope(s)
  /\ InScope(source)
  /\ PointerCall("SharedPtr(const SharedPtr&)", s, source,
                 SharedOperatorAssign(Declare(Heap, s), s, source))

\* the parameter source is an lvalue in the body: the copy assignment runs
SharedMove(s, source) ==
  /\ ~InScope(s)
  /\ InScope(source)
  /\ PointerCall("SharedPtr(SharedPtr&&)", s, source,
                 SharedOperatorAssign(Declare(Heap, s), s, source))

SharedAssign(s, rhs) ==
  /\ InScope(s)
  /\ InScope(rhs)
  /\ PointerCall("SharedPtr::operator=(const SharedPtr&)", s, rhs,
                 SharedOperatorAssign(Heap, s, rhs))

SharedMoveAssign(s, rhs) ==
  /\ InScope(s)
  /\ InScope(rhs)
  /\ PointerCall("SharedPtr::operator=(SharedPtr&&)", s, rhs,
                 SharedOperatorMoveAssign(Heap, s, rhs))

SharedReset(s) ==
  /\ InScope(s)
  /\ CanAllocate(Heap)
  /\ PointerCall("SharedPtr::Reset", s, s, InitNullptr(ReleaseMemory(Heap, s), s))

SharedDestroy(s) ==
  /\ InScope(s)
  /\ PointerCall("~SharedPtr", s, s, Leave(ReleaseMemory(Heap, s), s))

WeakDefault(w) ==
  /\ ~InScope(w)
  /\ PointerCall("WeakPtr()", w, w, Declare(Heap, w))

WeakNew(w, source) ==
  /\ ~InScope(w)
  /\ InScope(source)
  /\ PointerCall("WeakPtr(const SharedPtr&)", w, source,
                 WeakFromShared(Declare(Heap, w), w, source))

WeakCopy(w, source) ==
  /\ ~InScope(w)
  /\ InScope(source)
  /\ PointerCall("WeakPtr(const WeakPtr&)", w, source,
                 WeakOperatorAssign(Declare(Heap, w), w, source))

WeakMove(w, source) ==
  /\ ~InScope(w)
  /\ InScope(source)
  /\ PointerCall("WeakPtr(WeakPtr&&)", w, source,
                 WeakOperatorMoveAssign(Declare(Heap, w), w, source))

WeakAssign(w, rhs) ==
  /\ InScope(w)
  /\ InScope(rhs)
  /\ PointerCall("WeakPtr::operator=(const WeakPtr&)", w, rhs,
                 WeakOperatorAssign(Heap, w, rhs))

WeakMoveAssign(w, rhs) ==
  /\ InScope(w)
  /\ InScope(rhs)
  /\ PointerCall("WeakPtr::operator=(WeakPtr&&)", w, rhs,
                 WeakOperatorMoveAssign(Heap, w, rhs))

WeakReset(w) ==
  /\ InScope(w)
  /\ PointerCall("WeakPtr::Reset", w, w, SafeDelete(Heap, w))

WeakDestroy(w) ==
  /\ InScope(w)
  /\ PointerCall("~WeakPtr", w, w, Leave(SafeDelete(Heap, w), w))

WeakLock(w, result) ==
  /\ InScope(w)
  /\ ~InScope(result)
  /\ Expired(Heap, w) => CanAllocate(Heap)
  /\ PointerCall("WeakPtr::Lock", w, result, Lock(Heap, w, result))

InitPointers ==
  /\ x = DefaultBigInteger
  /\ y = DefaultBigInteger
  /\ call = Call("none", DefaultBigInteger, DefaultBigInteger, 0, <<>>, FALSE)
  /\ ret = Return(NoValue)
  /\ text = <<>>
  /\ base = 10
  /\ NothingElse

NextPointers ==
  \/ \E s \in SharedNames : SharedDefault(s)
  \/ \E s \in SharedNames : SharedNew(s)
  \/ \E s, source \in SharedNames : SharedCopy(s, source)
  \/ \E s, source \in SharedNames : SharedMove(s, source)
  \/ \E s, rhs \in SharedNames : SharedAssign(s, rhs)
  \/ \E s, rhs \in SharedNames : SharedMoveAssign(s, rhs)
  \/ \E s \in SharedNames : SharedReset(s)
  \/ \E s \in SharedNames : SharedDestroy(s)
  \/ \E w \in WeakNames : WeakDefault(w)
  \/ \E w \in WeakNames, source \in SharedNames : WeakNew(w, source)
  \/ \E w, source \in WeakNames : WeakCopy(w, source)
  \/ \E w, source \in WeakNames : WeakMove(w, source)
  \/ \E w, rhs \in WeakNames : WeakAssign(w, rhs)
  \/ \E w, rhs \in WeakNames : WeakMoveAssign(w, rhs)
  \/ \E w \in WeakNames : WeakReset(w)
  \/ \E w \in WeakNames : WeakDestroy(w)
  \/ \E w \in WeakNames, result \in SharedNames : WeakLock(w, result)

SpecPointers == InitPointers /\ [][NextPointers]_vars

\* ---- BinarySearchTree (binary_search_tree.h) ----
\* The operations are functions of the tree t: its TreeNodes and its fields.
EntangleLeft(t, this, child) ==
  LET linked == [t EXCEPT !.nodes[this].left = child]
  IN IF child # 0 THEN [linked EXCEPT !.nodes[child].parent = this] ELSE linked

EntangleRight(t, this, child) ==
  LET linked == [t EXCEPT !.nodes[this].right = child]
  IN IF child # 0 THEN [linked EXCEPT !.nodes[child].parent = this] ELSE linked

ReleaseParent(t, this) ==
  LET parent == t.nodes[this].parent
      side == IF t.nodes[parent].right = this THEN "right" ELSE "left"
  IN IF parent = 0 THEN t
     ELSE [[t EXCEPT !.nodes[parent][side] = 0] EXCEPT !.nodes[this].parent = 0]

\* while (ptr->side) ptr = ptr->side;
RECURSIVE Descend(_, _, _)
Descend(t, ptr, side) ==
  IF t.nodes[ptr][side] # 0 THEN Descend(t, t.nodes[ptr][side], side) ELSE ptr

\* the loops of operator++ and operator-- that climb to the parent
RECURSIVE Climb(_, _, _)
Climb(t, ptr, forward) ==
  LET parent == t.nodes[ptr].parent
      smaller == t.nodes[ptr].value < t.nodes[parent].value
  IN IF parent # 0 /\ (IF forward THEN ~smaller ELSE smaller)
     THEN Climb(t, parent, forward)
     ELSE ptr

\* ConstIterator::operator++ on an iterator at the node ptr
IteratorNext(t, ptr) ==
  IF t.nodes[ptr].right # 0
  THEN Descend(t, t.nodes[ptr].right, "left")
  ELSE t.nodes[Climb(t, ptr, TRUE)].parent

\* ConstIterator::operator-- on an iterator at the node ptr (0 is end())
IteratorPrev(t, ptr) ==
  IF ptr = 0 THEN t.rbegin_
  ELSE IF t.nodes[ptr].left # 0
       THEN Descend(t, t.nodes[ptr].left, "right")
       ELSE t.nodes[Climb(t, ptr, FALSE)].parent

RECURSIVE FindFrom(_, _, _)
FindFrom(t, candidate, target) ==
  IF candidate = 0 THEN 0
  ELSE IF t.nodes[candidate].value = target THEN candidate
       ELSE FindFrom(t, IF t.nodes[candidate].value < target
                        THEN t.nodes[candidate].right
                        ELSE t.nodes[candidate].left, target)

find(t, target) == FindFrom(t, t.root_, target)

RECURSIVE CountFrom(_, _, _)
CountFrom(t, node, value) ==
  IF node # 0 /\ t.nodes[node].value = value
  THEN 1 + CountFrom(t, t.nodes[node].right, value)
  ELSE 0

count(t, value) ==
  IF find(t, value) = 0 THEN 0
  ELSE 1 + CountFrom(t, t.nodes[find(t, value)].right, value)

\* while (begin_ && begin_->right && begin_->right->value == begin_->value)
RECURSIVE SkipEqual(_, _)
SkipEqual(t, ptr) ==
  IF ptr # 0 /\ t.nodes[ptr].right # 0
       /\ t.nodes[t.nodes[ptr].right].value = t.nodes[ptr].value
  THEN SkipEqual(t, t.nodes[ptr].right)
  ELSE ptr

UpdateBeginAndRbegin(t) ==
  LET begin_copy == t.begin_
      skipped == SkipEqual(t, t.begin_)
      start == IF skipped = 0 \/ t.nodes[skipped].left = 0 THEN begin_copy ELSE skipped
  IN [t EXCEPT !.begin_ = IF start # 0 THEN Descend(t, start, "left") ELSE 0,
               !.rbegin_ = IF t.rbegin_ # 0 THEN Descend(t, t.rbegin_, "right") ELSE 0]

\* the loop of insert(TreeNode*) that hangs node under a leaf
RECURSIVE Place(_, _, _)
Place(t, candidate, node) ==
  IF t.nodes[candidate].value < t.nodes[node].value
  THEN IF t.nodes[candidate].right # 0
       THEN Place(t, t.nodes[candidate].right, node)
       ELSE EntangleRight(t, candidate, node)
  ELSE IF t.nodes[candidate].left # 0
       THEN Place(t, t.nodes[candidate].left, node)
       ELSE EntangleLeft(t, candidate, node)

\* insert(TreeNode* node), the branch for a value the tree holds already
InsertAbove(t, same_node, node) ==
  LET parent == t.nodes[same_node].parent
      hung == IF parent = 0 THEN t
              ELSE IF t.nodes[parent].right = same_node
                   THEN EntangleRight(t, parent, node)
                   ELSE EntangleLeft(t, parent, node)
      taken == EntangleLeft(hung, node, hung.nodes[same_node].left)
      chained == EntangleRight([taken EXCEPT !.nodes[same_node].left = 0], node, same_node)
  IN [chained EXCEPT !.root_ = IF same_node = t.root_ THEN node ELSE @,
                     !.begin_ = IF same_node = t.begin_ THEN node ELSE @,
                     !.rbegin_ = IF same_node = t.rbegin_ THEN node ELSE @]

\* void insert(TreeNode* node)
InsertNode(t, node) ==
  LET counted == [t EXCEPT !.size_ = @ + 1]
      iter == find(counted, counted.nodes[node].value)
  IN IF counted.root_ = 0
     THEN UpdateBeginAndRbegin([counted EXCEPT !.root_ = node, !.begin_ = node, !.rbegin_ = node])
     ELSE IF iter # 0
          THEN UpdateBeginAndRbegin(InsertAbove(counted, iter, node))
          ELSE UpdateBeginAndRbegin(Place(counted, counted.root_, node))

ReturnToTree(t, node) ==
  InsertNode([ReleaseParent(t, node) EXCEPT !.size_ = @ - 1], node)

\* void erase(ConstIterator iter), iter at the node node_to_delete (0 is end())
EraseIterator(t, node_to_delete) ==
  LET counted == [t EXCEPT !.size_ = @ - 1]
      first == IF node_to_delete = counted.begin_
               THEN [counted EXCEPT !.begin_ = IteratorNext(counted, counted.begin_)]
               ELSE counted
      last == IF node_to_delete = first.rbegin_
              THEN [first EXCEPT !.rbegin_ = IteratorPrev(first, first.rbegin_)]
              ELSE first
      rootless == IF node_to_delete = last.root_ THEN [last EXCEPT !.root_ = 0] ELSE last
      cut == ReleaseParent(rootless, node_to_delete)
      lefts == IF cut.nodes[node_to_delete].left # 0
               THEN ReturnToTree(cut, cut.nodes[node_to_delete].left)
               ELSE cut
      rights == IF lefts.nodes[node_to_delete].right # 0
                THEN ReturnToTree(lefts, lefts.nodes[node_to_delete].right)
                ELSE lefts
  IN IF node_to_delete = 0 THEN t
     ELSE [rights EXCEPT !.nodes[node_to_delete].state = "deleted"]

\* the node new TreeNode(...) returns: one that was never handed out
NewTreeNode(t) ==
  CHOOSE n \in 1..MaxTreeNodes :
    /\ t.nodes[n].state = "unallocated"
    /\ \A m \in 1..(n - 1) : t.nodes[m].state # "unallocated"

\* the values begin() .. end() yields, at most fuel of them
RECURSIVE to_vector_from(_, _, _)
to_vector_from(t, ptr, fuel) ==
  IF ptr = 0 \/ fuel = 0 THEN <<>>
  ELSE <<t.nodes[ptr].value>> \o to_vector_from(t, IteratorNext(t, ptr), fuel - 1)

to_vector(t) == to_vector_from(t, t.begin_, MaxTreeNodes + 1)

\* the nodes begin() .. end() visits: the iterators a caller can hold
RECURSIVE IteratorsFrom(_, _, _)
IteratorsFrom(t, ptr, fuel) ==
  IF ptr = 0 \/ fuel = 0 THEN {}
  ELSE {ptr} \cup IteratorsFrom(t, IteratorNext(t, ptr), fuel - 1)

\* ---- the program: values are inserted and erased in any order ----
TreeCall(op, n, t) ==
  /\ call' = Call(op, DefaultBigInteger, DefaultBigInteger, n, <<>>, FALSE)
  /\ tree' = t
  /\ UNCHANGED <<x, y, ret, text, base, stream, stack, pointers, lists, cells>>

\* void insert(U&& value)
Insert(value) ==
  /\ \E n \in 1..MaxTreeNodes : tree.nodes[n].state = "unallocated"
  /\ TreeCall("insert", value,
       InsertNode([tree EXCEPT !.nodes[NewTreeNode(tree)] =
                     [state |-> "allocated", value |-> value,
                      left |-> 0, right |-> 0, parent |-> 0]],
                  NewTreeNode(tree)))

\* void erase(const T& value)
Erase(value) ==
  /\ value \in 1..MaxKey
  /\ TreeCall("erase", value, EraseIterator(tree, find(tree, value)))

\* void erase(ConstIterator) with an iterator reached from begin()
EraseAt(iter) ==
  /\ iter \in IteratorsFrom(tree, tree.begin_, MaxTreeNodes + 1)
  /\ TreeCall("erase(ConstIterator)", tree.nodes[iter].value, EraseIterator(tree, iter))

InitTree ==
  /\ x = DefaultBigInteger
  /\ y = DefaultBigInteger
  /\ call = Call("none", DefaultBigInteger, DefaultBigInteger, 0, <<>>, FALSE)
  /\ ret = Return(NoValue)
  /\ text = <<>>
  /\ base = 10
  /\ NothingElse

NextTree ==
  \/ \E value \in 1..MaxKey : Insert(value)
  \/ \E value \in 1..MaxKey : Erase(value)
  \/ \E iter \in 1..MaxTreeNodes : EraseAt(iter)

SpecTree == InitTree /\ [][NextTree]_vars

\* ---- BiDirectionalList (bidirectional_list.h) ----
\* The operations are functions of the heap h: the list objects, the Nodes,
\* and whether a freed Node was used (touched).  What a freed Node holds is
\* indeterminate: the model keeps none of it.
ListHeap == [lists |-> lists, cells |-> cells, touched |-> FALSE]

\* the by-value parameter of CopyFieldsFrom is a list object of its own
Parameter == "source"

\* BiDirectionalList() = default
NewList == [alive |-> TRUE, front_ |-> 0, back_ |-> 0, size_ |-> 0]

\* a read or write through the Node pointer c
Touch(h, c) ==
  IF h.cells[c].state = "freed" THEN [h EXCEPT !.touched = TRUE] ELSE h

\* delete c
DeleteNode(h, c) ==
  IF c = 0 THEN h
  ELSE IF h.cells[c].state = "freed"
       THEN [h EXCEPT !.touched = TRUE, !.cells[c].frees = @ + 1]
       ELSE [h EXCEPT !.cells[c] = [NoCell EXCEPT !.state = "freed", !.frees = 1]]

\* the Node new Node(value) returns: one that was never handed out
NewCell(h) ==
  CHOOSE c \in 1..MaxCells :
    /\ h.cells[c].state = "unallocated"
    /\ \A d \in 1..(c - 1) : h.cells[d].state # "unallocated"

FreeCells(h) == Cardinality({c \in 1..MaxCells : h.cells[c].state = "unallocated"})

ResetFields(h, this) ==
  [h EXCEPT !.lists[this].front_ = 0, !.lists[this].back_ = 0, !.lists[this].size_ = 0]

\* for (iter = front_; iter != nullptr; iter = iter->next_) delete iter->prev_;
RECURSIVE DeletePrevFrom(_, _)
DeletePrevFrom(h, iter) ==
  IF iter = 0 THEN h
  ELSE DeletePrevFrom(DeleteNode(Touch(h, iter), h.cells[iter].prev_), h.cells[iter].next_)

ListReleaseMemory(h, this) ==
  LET walked == DeletePrevFrom(h, h.lists[this].front_)
  IN ResetFields(DeleteNode(walked, walked.lists[this].back_), this)

InitializeWithSingleNode(h, this, only_node) ==
  [h EXCEPT !.lists[this].front_ = only_node, !.lists[this].back_ = only_node,
            !.lists[this].size_ = 1]

\* void InsertAfter(Node* node_in_list, Node* new_node)
InsertAfter(h, this, node_in_list, new_node) ==
  LET next == h.cells[node_in_list].next_
      linked == [Touch(h, node_in_list) EXCEPT
                   !.lists[this].size_ = @ + 1,
                   !.cells[new_node].prev_ = node_in_list,
                   !.cells[new_node].next_ = next,
                   !.cells[node_in_list].next_ = new_node]
  IN IF node_in_list = 0 THEN InitializeWithSingleNode(h, this, new_node)
     ELSE IF next # 0 THEN [Touch(linked, next) EXCEPT !.cells[next].prev_ = new_node]
          ELSE [linked EXCEPT !.lists[this].back_ = new_node]

\* void InsertBefore(Node* node_in_list, Node* new_node)
InsertBefore(h, this, node_in_list, new_node) ==
  LET prev == h.cells[node_in_list].prev_
      linked == [Touch(h, node_in_list) EXCEPT
                   !.lists[this].size_ = @ + 1,
                   !.cells[new_node].next_ = node_in_list,
                   !.cells[new_node].prev_ = prev,
                   !.cells[node_in_list].prev_ = new_node]
  IN IF node_in_list = 0 THEN InitializeWithSingleNode(h, this, new_node)
     ELSE IF prev # 0 THEN [Touch(linked, prev) EXCEPT !.cells[prev].next_ = new_node]
          ELSE [linked EXCEPT !.lists[this].front_ = new_node]

\* new Node(value)
WithNode(h, value) ==
  [h EXCEPT !.cells[NewCell(h)] =
     [state |-> "allocated", value |-> value, prev_ |-> 0, next_ |-> 0, frees |-> 0]]

PushBack(h, this, value) ==
  InsertAfter(WithNode(h, value), this, h.lists[this].back_, NewCell(h))

PushFront(h, this, value) ==
  InsertBefore(WithNode(h, value), this, h.lists[this].front_, NewCell(h))

\* void Erase(Node* element), element not null
ListErase(h, this, element) ==
  LET prev == h.cells[element].prev_
      next == h.cells[element].next_
      counted == [Touch(h, element) EXCEPT
                    !.lists[this].size_ = @ - 1,
                    !.lists[this].back_ = IF element = @ THEN prev ELSE @,
                    !.lists[this].front_ = IF element = @ THEN next ELSE @]
      forward == IF prev # 0 THEN [Touch(counted, prev) EXCEPT !.cells[prev].next_ = next]
                 ELSE counted
      backward == IF next # 0 THEN [Touch(forward, next) EXCEPT !.cells[next].prev_ = prev]
                  ELSE forward
  IN DeleteNode(backward, element)

\* for (iter = rhs.front_; iter != nullptr; iter = iter->next_) PushBack(iter->value);
RECURSIVE PushBackFrom(_, _, _)
PushBackFrom(h, this, iter) ==
  IF iter = 0 THEN h
  ELSE PushBackFrom(PushBack(Touch(h, iter), this, h.cells[iter].value), this,
                    h.cells[iter].next_)

\* BiDirectionalList& operator=(const BiDirectionalList& rhs)
ListOperatorAssign(h, this, rhs) ==
  IF this = rhs THEN h
  ELSE PushBackFrom(ListReleaseMemory(h, this), this, h.lists[rhs].front_)

\* void CopyFieldsFrom(const BiDirectionalList<T> source): the argument is
\* copy-constructed into the parameter, and the parameter is destroyed when
\* the function returns
CopyFieldsFrom(h, this, argument) ==
  LET passed == ListOperatorAssign([h EXCEPT !.lists[Parameter] = NewList], Parameter, argument)
      copied == [passed EXCEPT !.lists[this].front_ = passed.lists[Parameter].front_,
                               !.lists[this].back_ = passed.lists[Parameter].back_,
                               !.lists[this].size_ = passed.lists[Parameter].size_]
  IN [ListReleaseMemory(copied, Parameter) EXCEPT !.lists[Parameter] = NoList]

\* BiDirectionalList& operator=(BiDirectionalList&& rhs)
ListOperatorMoveAssign(h, this, rhs) ==
  IF this = rhs THEN h
  ELSE ResetFields(CopyFieldsFrom(ListReleaseMemory(h, this), this, rhs), rhs)

\* std::vector<T> ToVector() const, at most fuel elements
RECURSIVE ToVectorFrom(_, _, _)
ToVectorFrom(C, iter, fuel) ==
  IF iter = 0 \/ fuel = 0 THEN <<>>
  ELSE <<C[iter].value>> \o ToVectorFrom(C, C[iter].next_, fuel - 1)

ToVector(L, C, this) == ToVectorFrom(C, L[this].front_, MaxCells + 1)

\* ---- the program: lists come into scope, are filled, emptied, copied,
\* moved and destroyed in any order.  A call that uses a freed Node has no
\* defined outcome: the program is not followed into it ----
ListCall(op, this, rhs, n, h) ==
  /\ fault = "none"
  /\ call' = Call(op, this, rhs, n, <<>>, FALSE)
  /\ IF h.touched
     THEN fault' = "freed node used" /\ UNCHANGED <<lists, cells>>
     ELSE fault' = "none" /\ lists' = h.lists /\ cells' = h.cells
  /\ UNCHANGED <<x, y, ret, text, base, stream, stack, ptrs, counters, object, tree>>

ListDefault(l) ==
  /\ ~lists[l].alive
  /\ ListCall("BiDirectionalList()", l, l, 0, [ListHeap EXCEPT !.lists[l] = NewList])

ListPushBack(l, value) ==
  /\ lists[l].alive
  /\ FreeCells(ListHeap) > 0
  /\ ListCall("PushBack", l, l, value, PushBack(ListHeap, l, value))

ListPushFront(l, value) ==
  /\ lists[l].alive
  /\ FreeCells(ListHeap) > 0
  /\ ListCall("PushFront", l, l, value, PushFront(ListHeap, l, value))

ListPopFront(l) ==
  /\ lists[l].alive
  /\ lists[l].front_ # 0
  /\ ListCall("PopFront", l, l, 0, ListErase(ListHeap, l, lists[l].front_))

ListPopBack(l) ==
  /\ lists[l].alive
  /\ lists[l].back_ # 0
  /\ ListCall("PopBack", l, l, 0, ListErase(ListHeap, l, lists[l].back_))

ListCopy(l, source) ==
  /\ ~lists[l].alive
  /\ lists[source].alive
  /\ FreeCells(ListHeap) >= lists[source].size_
  /\ ListCall("BiDirectionalList(const BiDirectionalList&)", l, source, 0,
       ListOperatorAssign([ListHeap EXCEPT !.lists[l] = NewList], l, source))

ListMove(l, source) ==
  /\ ~lists[l].alive
  /\ lists[source].alive
  /\ FreeCells(ListHeap) >= lists[source].size_
  /\ ListCall("BiDirectionalList(BiDirectionalList&&)", l, source, 0,
       ListOperatorMoveAssign([ListHeap EXCEPT !.lists[l] = NewList], l, source))

ListAssign(l, rhs) ==
  /\ lists[l].alive
  /\ lists[rhs].alive
  /\ FreeCells(ListHeap) >= lists[rhs].size_
  /\ ListCall("operator=(const BiDirectionalList&)", l, rhs, 0,
       ListOperatorAssign(ListHeap, l, rhs))

ListMoveAssign(l, rhs) ==
  /\ lists[l].alive
  /\ lists[rhs].alive
  /\ FreeCells(ListHeap) >= lists[rhs].size_
  /\ ListCall("operator=(BiDirectionalList&&)", l, rhs, 0,
       ListOperatorMoveAssign(ListHeap, l, rhs))

ListDestroy(l) ==
  /\ lists[l].alive
  /\ ListCall("~BiDirectionalList", l, l, 0,
       [ListReleaseMemory(ListHeap, l) EXCEPT !.lists[l] = NoList])

InitLists ==
  /\ x = DefaultBigInteger
  /\ y = DefaultBigInteger
  /\ call = Call("none", DefaultBigInteger, DefaultBigInteger, 0, <<>>, FALSE)
  /\ ret = Return(NoValue)
  /\ text = <<>>
  /\ base = 10
  /\ NothingElse

NextLists ==
  \/ \E l \in ListNames : ListDefault(l)
  \/ \E l \in ListNames, value \in 1..MaxListValue : ListPushBack(l, value)
  \/ \E l \in ListNames, value \in 1..MaxListValue : ListPushFront(l, value)
  \/ \E l \in ListNames : ListPopFront(l)
  \/ \E l \in ListNames : ListPopBack(l)
  \/ \E l, source \in ListNames : ListCopy(l, source)
  \/ \E l, source \in ListNames : ListMove(l, source)
  \/ \E l, rhs \in ListNames : ListAssign(l, rhs)
  \/ \E l, rhs \in ListNames : ListMoveAssign(l, rhs)
  \/ \E l \in ListNames : ListDestroy(l)

SpecLists == InitLists /\ [][NextLists]_vars

\* ======================= the claims =======================
Returned == ret.exc = "none"

\* C1: a + b has the value value(a) + value(b) and a - b the value
\* value(a) - value(b), for operands of any signs; a carry out of the top limb
\* creates a new limb: (B - 1) + 1 is the two limbs [0, 1].
C1_SumAndDifference ==
  /\ call.op \in {"Plus", "PlusAssign"} =>
       Returned /\ Value(ret.val) = Value(call.this) + Value(call.rhs)
  /\ call.op \in {"Minus", "MinusAssign"} =>
       Returned /\ Value(ret.val) = Value(call.this) - Value(call.rhs)
  /\ (call.op = "Plus" /\ call.this = BigInteger(Radix - 1) /\ call.rhs = BigInteger(1)) =>
       ret.val = [digits |-> <<0, 1>>, is_negative |-> FALSE]

\* a sum of a positive and a larger negative two-limb operand, with a borrow
C1_Witness ==
  /\ call.op = "Plus"
  /\ Value(call.this) = Radix + 1
  /\ Value(call.rhs) = -(2 * Radix)
  /\ Value(ret.val) = 1 - Radix

\* C2: a * b has the value value(a) * value(b); the sign is negative exactly
\* when the operands have opposite signs and neither is zero, and a zero
\* operand gives Sign() = 0.
C2_Product ==
  call.op \in {"Times", "TimesAssign"} =>
    /\ Returned
    /\ Magnitude(ret.val) = Magnitude(call.this) * Magnitude(call.rhs)
    /\ Value(ret.val) = Value(call.this) * Value(call.rhs)
    /\ Sign(ret.val) = -1 <=> (Value(call.this) * Value(call.rhs) < 0)
    /\ (Magnitude(call.this) = 0 \/ Magnitude(call.rhs) = 0) => Sign(ret.val) = 0

\* a negative two-limb operand times a positive two-limb operand
C2_Witness ==
  /\ call.op = "Times"
  /\ Value(call.this) = -(Radix * Radix - 1)
  /\ Value(call.rhs) = Radix + 2
  /\ NumberOfDigits(ret.val) > 2
  /\ Sign(ret.val) = -1

DivisionOps == {"Div", "DivInt", "IntDiv", "DivAssign"}

\* C3: for b # 0, a / b truncates toward zero: |a / b| = floor(|a| / |b|), a
\* nonzero quotient is negative exactly when the signs differ, and
\* (a/b)*b + (a - (a/b)*b) == a.
C3_Quotient ==
  (call.op \in DivisionOps /\ Magnitude(call.rhs) # 0) =>
    /\ Returned
    /\ Magnitude(ret.val) = Magnitude(call.this) \div Magnitude(call.rhs)
    /\ Magnitude(ret.val) # 0 =>
         (Sign(ret.val) = -1 <=> (Sign(call.this) * Sign(call.rhs) = -1))
    /\ LET qb == OperatorTimes(ret.val, call.rhs)
       IN OperatorEq(OperatorPlus(qb, OperatorMinus(call.this, qb)), call.this)

\* -7 / 2 = -3: a negative dividend, a remainder, a quotient digit B - 1 or a
\* two-limb quotient
C3_Witness ==
  /\ call.op = "Div"
  /\ Value(call.this) = -(2 * Radix + 1)
  /\ Value(call.rhs) = 2
  /\ Value(ret.val) = -Radix

\* C4: dividing by zero signals DivisionByZeroError for every dividend and
\* through every entry point (a / b, a / native, native / a, a /= b, a % 0);
\* nothing is returned and the left operand of a /= 0 keeps its value.
C4_DivisionByZero ==
  /\ (call.op \in DivisionOps /\ Magnitude(call.rhs) = 0) =>
       ret.exc = "DivisionByZeroError" /\ ret.val = NoValue
  /\ (call.op = "Mod" /\ call.n = 0) =>
       ret.exc = "DivisionByZeroError" /\ ret.val = NoValue
  /\ (call.op = "DivAssign" /\ Magnitude(call.rhs) = 0) => x = call.this

\* x /= y with x negative and y a zero whose flag is set
C4_Witness ==
  /\ call.op = "DivAssign"
  /\ call.rhs = [digits |-> <<>>, is_negative |-> TRUE]
  /\ Value(call.this) < 0
  /\ ret.exc = "DivisionByZeroError"
  /\ x = call.this

\* C5: the relational operators are a total order that agrees with the
\* values: exactly one of <, ==, > holds, <= is (< or ==), >= is not <, and
\* a < b exactly when value(a) < value(b); a zero produced by negation or
\* cancellation has Sign() = 0 and equals BigInteger(0).
C5_TotalOrder ==
  /\ call.op = "Compare" =>
       /\ (IF ret.val.lt THEN 1 ELSE 0) + (IF ret.val.eq THEN 1 ELSE 0)
            + (IF ret.val.gt THEN 1 ELSE 0) = 1
       /\ ret.val.le <=> (ret.val.lt \/ ret.val.eq)
       /\ ret.val.ge <=> ~ret.val.lt
       /\ ret.val.ne <=> ~ret.val.eq
       /\ ret.val.lt <=> (Value(call.this) < Value(call.rhs))
       /\ ret.val.eq <=> (Value(call.this) = Value(call.rhs))
  /\ \A a \in {x, y} :
       Magnitude(a) = 0 => Sign(a) = 0 /\ OperatorEq(a, BigInteger(0))
                           /\ ~OperatorLt(a, BigInteger(0))

\* a zero whose flag is set compared with a constructed zero
C5_Witness ==
  /\ call.op = "Compare"
  /\ call.this = [digits |-> <<>>, is_negative |-> TRUE]
  /\ call.rhs = BigInteger(0)
  /\ ret.val.eq
  /\ ~ret.val.lt

\* C6: for every x and every base b in 2..36, FromString(x.ToString(b), b) == x.
C6_RoundTrip ==
  (call.op = "ToString" /\ ~call.flag /\ call.n \in 2..36) =>
    /\ Returned
    /\ LET back == FromString(ret.val, call.n)
       IN back.exc = "none" /\ OperatorEq(back.val, call.this)

\* a negative value whose rendering has a letter
C6_Witness ==
  /\ call.op = "ToString"
  /\ ~call.flag
  /\ call.n = 16
  /\ Value(call.this) = -11
  /\ ret.val = <<CharMinus, CharLowerA + 1>>

Canonical(a) ==
  /\ \A k \in 1..Len(a.digits) : a.digits[k] \in 0..(Radix - 1)
  /\ Len(a.digits) > 0 => a.digits[Len(a.digits)] # 0

\* C7: every BigInteger a public operation returns is canonical: limbs in
\* [0, B), a nonzero top limb, and zero as the empty limb sequence.
C7_CanonicalForm ==
  /\ (call.op \in BigIntegerOps /\ Returned) => Canonical(ret.val)
  /\ Canonical(x)
  /\ Canonical(y)

\* a quotient shorter than its dividend: the reversed digits had to be trimmed
C7_Witness ==
  /\ call.op = "Div"
  /\ Returned
  /\ NumberOfDigits(call.this) = 2
  /\ NumberOfDigits(call.rhs) = 2
  /\ NumberOfDigits(ret.val) = 1

\* C8: for every a and every modulus m > 0, a % m is the r with 0 <= r < m
\* and a - r divisible by m.
C8_Remainder ==
  (call.op = "Mod" /\ call.n > 0) =>
    /\ Returned
    /\ ret.val \in 0..(call.n - 1)
    /\ \E k \in -(Magnitude(call.this) + 1)..(Magnitude(call.this) + 1) :
         Value(call.this) - ret.val = k * call.n

\* (-7) % 4 = 1: a negative dividend and a two-limb modulus
C8_Witness ==
  /\ call.op = "Mod"
  /\ Value(call.this) = -(2 * Radix + 1)
  /\ call.n = Radix + 1
  /\ ret.val = (Radix + 1) - CMod(2 * Radix + 1, Radix + 1)

\* the digit alphabet of the texts
DigitCodes == <<48, 49, 50, 51, 52, 53, 54, 55, 56, 57,
                97, 98, 99, 100, 101, 102, 103, 104, 105, 106, 107, 108, 109,
                110, 111, 112, 113, 114, 115, 116, 117, 118, 119, 120, 121, 122>>

IsDigitOf(c, b) == \E d \in 1..36 : DigitCodes[d] = c /\ d - 1 < b

DigitOf(c) == (CHOOSE d \in 1..36 : DigitCodes[d] = c) - 1

\* indexes (from 0) of the characters a base rejects
Offending(t, b) ==
  {i \in 0..(Len(t) - 1) : ~(i = 0 /\ t[1] = 45) /\ ~IsDigitOf(t[i + 1], b)}

Lowest(S) == CHOOSE i \in S : \A j \in S : i <= j

\* the value of t[1..k] read as digits in base b, most significant first
RECURSIVE TextValue(_, _, _)
TextValue(t, b, k) ==
  IF k = 0 THEN 0
  ELSE IF t[k] = 45 THEN TextValue(t, b, k - 1)
       ELSE b * TextValue(t, b, k - 1) + DigitOf(t[k])

\* C9: with a valid base FromString fails with the invalid-character error at
\* the lowest offending index when a character, other than '-' at index 0, is
\* no digit of the base; otherwise it returns the value of the digits, negated
\* when the text starts with '-'.
C9_Parse ==
  (call.op = "FromString" /\ call.n \in 2..36) =>
    IF Offending(call.input, call.n) # {}
    THEN /\ ret.exc = "Invalid symbol at index"
         /\ ret.index = Lowest(Offending(call.input, call.n))
    ELSE /\ Returned
         /\ Value(ret.val) =
              (IF Len(call.input) > 0 /\ call.input[1] = 45 THEN -1 ELSE 1)
                * TextValue(call.input, call.n, Len(call.input))

\* a '-' after the first character is rejected at its index
C9_Witness ==
  /\ call.op = "FromString"
  /\ call.n = 10
  /\ call.input = <<Char0 + 1, CharMinus>>
  /\ ret.exc = "Invalid symbol at index"
  /\ ret.index = 1

\* C10: FromString and ToString fail with the invalid-base error exactly
\* when base < 2 or base > 36, whatever the text or the value.
C10_InvalidBase ==
  call.op \in {"FromString", "ToString"} =>
    (ret.exc = "Invalid base" <=> (call.n < 2 \/ call.n > 36))

\* base 37 with a text whose first character no base accepts
C10_Witness ==
  /\ call.op = "FromString"
  /\ call.n = 37
  /\ Len(call.input) > 0
  /\ call.input[1] = 65
  /\ ret.exc = "Invalid base"

\* the digits of m in base b, most significant first
RECURSIVE Numeral(_, _)
Numeral(m, b) ==
  IF m < b THEN <<DigitCodes[m + 1]>>
  ELSE Append(Numeral(m \div b, b), DigitCodes[(m % b) + 1])

BaseMarker(b) ==
  IF b = 8 THEN <<48>> ELSE IF b = 16 THEN <<48, 120>> ELSE <<>>

\* C11: ToString(base, showBasePrefix) returns '-' exactly when the value is
\* negative, then (only when showBasePrefix is set) "0" for base 8 or "0x" for
\* base 16, then the digits of the absolute value, most significant first,
\* without leading zeros, in '0'-'9' and 'a'-'z'; zero renders its digits as "0".
C11_Rendering ==
  (call.op = "ToString" /\ call.n \in 2..36) =>
    /\ Returned
    /\ ret.val = (IF Value(call.this) < 0 THEN <<45>> ELSE <<>>)
                   \o (IF call.flag THEN BaseMarker(call.n) ELSE <<>>)
                   \o Numeral(Magnitude(call.this), call.n)

\* -20 in base 16 with the prefix: "-0x14"
C11_Witness ==
  /\ call.op = "ToString"
  /\ call.flag
  /\ call.n = 16
  /\ Value(call.this) = -20
  /\ ret.val = <<45, 48, 120, 49, 52>>

\* C12: the conversion to int64 fails with the overflow error exactly when the
\* value is above INT64_MAX or below INT64_MIN and otherwise returns exactly
\* the value, so int64_t(BigInteger(n)) == n for every native n, INT64_MIN and
\* INT64_MAX included.
C12_Conversion ==
  /\ call.op \in {"Int64", "Int64OfNative"} =>
       IF InInt64(Value(call.this))
       THEN Returned /\ ret.val = Value(call.this)
       ELSE ret.exc = "int64_t overflow"
  /\ call.op = "Int64OfNative" => Returned /\ ret.val = call.n

\* C13: writing x to a stream emits x rendered at the stream's base (16 with
\* hex, 8 with oct, otherwise 10): one '-' for a negative value, then the base
\* prefix exactly when showbase is set, then the digits.
C13_Write ==
  call.op = "Write" =>
    stream.buffer = (IF Value(call.this) < 0 THEN <<45>> ELSE <<>>)
                      \o (IF IsShowbaseSet(stream) THEN BaseMarker(GetStreamBase(stream)) ELSE <<>>)
                      \o Numeral(Magnitude(call.this), GetStreamBase(stream))

\* the rendering of v in base b, with the prefix when marked
Rendering(v, b, marked) ==
  (IF v < 0 THEN <<45>> ELSE <<>>)
    \o (IF marked THEN BaseMarker(b) ELSE <<>>)
    \o Numeral(IF v < 0 THEN -v ELSE v, b)

\* C14: reading consumes the token, takes the base from the stream, strips an
\* optional '-' and the base prefix when the token has one, parses the rest
\* and reapplies the sign: the token that renders v in the stream's base, with
\* or without the prefix, reads back as v.
C14_Read ==
  call.op = "Read" =>
    \A v \in -MaxTextInt..MaxTextInt : \A marked \in BOOLEAN :
      call.input = Rendering(v, call.n, marked) =>
        /\ Returned
        /\ Value(x) = v
        /\ stream.buffer = <<>>

ZeroIsNonNegative(a) == NumberOfDigits(a) = 0 => ~a.is_negative

\* C15: a BigInteger whose limb sequence is empty never has its is-negative
\* flag set, whatever public operations produced it: negating zero leaves the
\* representation unchanged, the zeros that FromString("-"), FromString("-0"),
\* (-a) + a, 0 * (-a) and (-a) / b with |a| < |b| return carry a non-negative
\* flag, and for a nonzero a, -(-a) == a.
C15_NoNegativeZero ==
  /\ ZeroIsNonNegative(x)
  /\ ZeroIsNonNegative(y)
  /\ (call.op \in BigIntegerOps /\ Returned) => ZeroIsNonNegative(ret.val)
  /\ (call.op = "UnaryMinus" /\ NumberOfDigits(call.this) = 0) => ret.val = call.this
  /\ (call.op = "UnaryMinus" /\ NumberOfDigits(call.this) # 0) =>
       OperatorEq(OperatorNeg(ret.val), call.this)

\* C16: in the long division of a non-negative a by a positive b, the
\* trailing remainder r handed to GuessDigit satisfies 0 <= r < B*b, the digit
\* q it returns is the one integer of [0, B) with q*b <= r < (q+1)*b, and the
\* remainder after subtracting q*b satisfies 0 <= r < b, at every limb
\* position, also where a zero limb is put in front of a zero remainder.
C16_DigitGuess ==
  \A k \in 1..Len(stack) :
    LET f == stack[k]
        b == Value(f.rhs)
        r == Value(f.trailing)
        q == f.digit
    IN (f.fn = "div" /\ Value(f.this) >= 0 /\ b > 0) =>
         /\ f.pc = "loop" => 0 <= r /\ r < b
         /\ f.pc \in {"guessed", "subtracted"} =>
              /\ 0 <= r /\ r < internal_base * b
              /\ q \in 0..(internal_base - 1)
              /\ \A d \in 0..(internal_base - 1) : (d * b <= r /\ r < (d + 1) * b) <=> d = q
              /\ (f.pc = "subtracted" /\ k = Len(stack)) =>
                   Value(ret.val) = r - q * b /\ 0 <= Value(ret.val) /\ Value(ret.val) < b

\* the last limb position of a three-limb dividend: a zero limb in front of
\* a zero remainder, the digit 0 guessed and the difference returned
C16_Witness ==
  /\ Running("div", "subtracted")
  /\ NumberOfDigits(Top.this) = 3
  /\ Top.i = 0
  /\ Top.trailing.digits = <<0>>
  /\ Top.digit = 0
  /\ ret.val.digits = <<>>

ArithmeticCalls == {"plus", "minus", "times", "div"}

\* C17: every arithmetic operation terminates: a call of +, -, * or / that
\* has begun comes to its end, with every delegated call and every carry loop
\* inside it, for operands of any signs and for the non-normalized operands
\* that multiplication and division hand to the addition.
C17_Termination ==
  (call.op \in ArithmeticCalls /\ stack # <<>>) ~> (stack = <<>>)

\* inside a division, the carry loop of the addition has run to carry 0 on a
\* remainder that is the single limb 0
C17_Witness ==
  /\ Len(stack) >= 3
  /\ stack[1].fn = "div"
  /\ Running("plus", "loop")
  /\ Top.this.digits = <<0>>
  /\ Top.i = 1
  /\ Top.carry = 0

\* the native intermediates of the call a frame stands for
IntermediatesOf(f) ==
  IF f.fn = "plus" THEN {f.digit, f.carry}
  ELSE IF f.fn = "times" /\ f.pc = "added"
       THEN {MultiplyByShortPeak(f.this, DigitAt(f.rhs, f.i))}
       ELSE IF f.fn = "div" /\ f.pc \in {"guessed", "subtracted"}
            THEN {GuessDigitPeak(f.trailing, f.rhs)}
                   \cup {MultiplyByShortPeak(f.rhs, scalar) : scalar \in 0..internal_base}
            ELSE IF f.fn = "int64" THEN {f.product, f.total, f.power}
                 ELSE {}

\* C18: no signed 64-bit intermediate of a BigInteger operation leaves the
\* native range: the accumulator of MultiplyByShort for scalars up to B, the
\* digit sum and the carry of the addition, the sum of the bisection bounds of
\* GuessDigit, and the digit * power accumulation of the int64 conversion of
\* a value that passed its range check, up to the value it returns.
C18_NoOverflow ==
  /\ \A k \in 1..Len(stack) : \A n \in IntermediatesOf(stack[k]) : InInt64(n)
  /\ ret # Trap

\* the SharedPtr variables that refer to the managed object
Owners(P) == {s \in SharedNames : P[s].alive /\ P[s].ptr_ = "object"}

ObjectLifetime ==
  /\ object.deletes <= 1
  /\ object.deletes = 1 => Owners(ptrs) = {}
  /\ (object.handed /\ object.deletes = 0) => Owners(ptrs) # {}

CounterLifetime ==
  \A c \in 1..MaxBlocks :
    /\ counters[c].frees <= 1
    /\ counters[c].state = "freed" <=> counters[c].frees = 1
    /\ counters[c].state = "freed" =>
         counters[c].use_count = 0 /\ counters[c].weak_use_count = 0
    /\ counters[c].state = "allocated" =>
         counters[c].use_count > 0 \/ counters[c].weak_use_count > 0

DeletedAtLastRelease ==
  object'.deletes # object.deletes => Owners(ptrs) # {} /\ Owners(ptrs') = {}

LockFollowsOwnership ==
  (call'.op = "WeakPtr::Lock" /\ ptrs[call'.this].ptr_ = "object" /\ fault' = "none") =>
    /\ object.deletes = 0 => call'.rhs \in Owners(ptrs')
    /\ object.deletes > 0 =>
         /\ ptrs'[call'.rhs].ptr_ = "nullptr"
         /\ ptrs'[call'.rhs].counter_ # 0
         /\ object'.deletes = object.deletes

\* C19: over any sequence of SharedPtr and WeakPtr constructions, copies,
\* moves, Reset, Lock and destructions on one managed object, the object is
\* deleted exactly once, at the step that releases the last SharedPtr
\* referring to it and never while a SharedPtr refers to it; a Counter block
\* is freed exactly once, only when its strong and its weak count are both
\* zero; Lock() gives a SharedPtr to the object while a SharedPtr owns it and
\* a null SharedPtr once the object is deleted.
C19_Lifetime ==
  /\ [](ObjectLifetime /\ CounterLifetime)
  /\ [][DeletedAtLastRelease /\ LockFollowsOwnership]_vars

\* a WeakPtr that outlived the object was locked and gave a null SharedPtr
C19_Witness ==
  /\ call.op = "WeakPtr::Lock"
  /\ fault = "none"
  /\ object.deletes = 1
  /\ ptrs[call.this].ptr_ = "object"
  /\ ptrs[call.rhs].ptr_ = "nullptr"
  /\ \E c \in 1..MaxBlocks : counters[c].state = "freed"

WeakSources ==
  {"WeakPtr(const SharedPtr&)", "WeakPtr(const WeakPtr&)",
   "WeakPtr::operator=(const WeakPtr&)"}

\* C20: building a WeakPtr from a SharedPtr, copy-constructing it and
\* copy-assigning it never go through a null or freed Counter pointer, for a
\* source in any reachable state: default-constructed, Reset, or moved from.
C20_NoInvalidAccess == call.op \in WeakSources => fault = "none"

\* how often v occurs in a sequence
Occurrences(seq, v) == Cardinality({i \in 1..Len(seq) : seq[i] = v})

\* iteration is sorted, and size() and count() agree with it
TreeAgrees ==
  /\ \A i \in 1..(Len(to_vector(tree)) - 1) : to_vector(tree)[i] <= to_vector(tree)[i + 1]
  /\ tree.size_ = Len(to_vector(tree))
  /\ \A v \in 1..MaxKey : count(tree, v) = Occurrences(to_vector(tree), v)

\* insert adds one occurrence of its value, erase takes one away if there is
\* one, and neither changes the occurrences of another value
TreeFollows ==
  \A v \in 1..MaxKey :
    Occurrences(to_vector(tree'), v) =
      Occurrences(to_vector(tree), v)
        + (IF call'.op = "insert" /\ call'.n = v THEN 1 ELSE 0)
        - (IF call'.op # "insert" /\ call'.n = v /\ Occurrences(to_vector(tree), v) > 0
           THEN 1 ELSE 0)

\* C21: after any sequence of insert and erase (by value or by iterator, keys
\* possibly duplicated, also erasing a duplicate that is not the topmost node
\* of its chain of equal keys), iteration from begin() to end() yields exactly
\* the values inserted and not yet erased, in non-decreasing order; size()
\* is the number of values yielded and count(v) the occurrences of v.
C21_TreeContents == []TreeAgrees /\ [][TreeFollows]_vars

Moves == {"BiDirectionalList(BiDirectionalList&&)", "operator=(BiDirectionalList&&)"}

\* the Nodes reached from iter through next_, at most fuel of them
RECURSIVE NodesFrom(_, _, _)
NodesFrom(C, iter, fuel) ==
  IF iter = 0 \/ fuel = 0 THEN {}
  ELSE {iter} \cup NodesFrom(C, C[iter].next_, fuel - 1)

\* the Nodes some list in scope reaches from its front
Owned(L, C) ==
  UNION {NodesFrom(C, L[l].front_, MaxCells + 1) : l \in {m \in ListNames : L[m].alive}}

MoveKeepsElements ==
  (call'.op \in Moves /\ call'.this # call'.rhs /\ fault' = "none") =>
    /\ ToVector(lists', cells', call'.this) = ToVector(lists, cells, call'.rhs)
    /\ lists'[call'.this].size_ = Len(ToVector(lists, cells, call'.rhs))
    /\ \A c \in NodesFrom(cells', lists'[call'.this].front_, MaxCells + 1) :
         cells'[c].state = "allocated"
    /\ lists'[call'.rhs] = NewList
    /\ \A c \in 1..MaxCells : cells'[c].frees <= 1
    /\ \A c \in 1..MaxCells : cells'[c].state = "allocated" => c \in Owned(lists', cells')

\* C22: moving a BiDirectionalList (move construction or move assignment)
\* leaves the target with exactly the former elements of the source in their
\* order, Size() equal to their number and every Node reachable from its front
\* still allocated, and leaves the source empty; the move frees no Node twice
\* and leaks none.
C22_Move == [][MoveKeepsElements]_vars

====
